---- MODULE Spec2Model ----
(***************************************************************************)
(* Linked-group synchronisation of TrenchBroom: updateLinkedGroups and the *)
(* clone-and-transform engine of Model/GroupNode.cpp, and the              *)
(* UpdateLinkedGroupsHelper of View/UpdateLinkedGroupsHelper.cpp.          *)
(*                                                                         *)
(* The scene graph is a heap: a sequence of node records, a node's         *)
(* identity (its address in the program) being its index.  Geometry is     *)
(* one-dimensional: a transformation is the affine map x |-> a*x + b with  *)
(* a in {-1, 0, 1} (a = 0 is the singular, non-invertible case), an        *)
(* entity, brush or patch has one coordinate, and a bounding box is an     *)
(* interval.                                                               *)
(***************************************************************************)
EXTENDS Integers, Sequences, FiniteSets, TLC

VARIABLES
  nodes,        \* the heap of scene nodes, live and detached
  worldBounds,  \* document.worldBounds()
  helpers,      \* the UpdateLinkedGroupsHelper objects, by name
  result,       \* what the last operation returned
  pre,          \* history: nodes and helpers as they were before the last operation
  hist          \* history: per helper, the heap before and after its first apply,
                \* and whether its replacement children are installed in the document

vars == <<nodes, worldBounds, helpers, result, pre, hist>>

(***************************************************************************)
(* Node content model                                                      *)
(***************************************************************************)

\* nullptr, std::nullopt for a linked group id, std::nullopt for a link id
NoNode == 0
NoLinkedGroupId == 0
NoLinkId == 0

\* the document's world node is the first node of every heap built here
WorldId == 1

\* half the edge of a point entity's default bounds, and of the test cube
EntityHalfSize == 8
BrushHalfSize == 32

Identity == [a |-> 1, b |-> 0]

Translation(d) == [a |-> 1, b |-> d]

\* vm::mat4x4 operator*: (m * n) applies n first
MatMul(m, n) == [a |-> m.a * n.a, b |-> m.a * n.b + m.b]

\* vm::invert: {success, inverse}; the inverse of x |-> a*x + b for a in {-1, 1}
invert(m) ==
  IF m.a = 0
    THEN [success |-> FALSE, m |-> Identity]
    ELSE [success |-> TRUE, m |-> [a |-> m.a, b |-> -(m.a * m.b)]]

\* matrix * point
TransformPoint(m, x) == m.a * x + m.b

MkNode(kind, parent, children, name, trans, linkedGroupId, origin, props, prot, linkId) ==
  [kind |-> kind, parent |-> parent, children |-> children, name |-> name,
   trans |-> trans, linkedGroupId |-> linkedGroupId, origin |-> origin,
   properties |-> props, protectedProperties |-> prot, linkId |-> linkId]

WorldNode(children) ==
  MkNode("World", NoNode, children, "", Identity, NoLinkedGroupId, 0, <<>>, <<>>, NoLinkId)
LayerNode(parent, children) ==
  MkNode("Layer", parent, children, "", Identity, NoLinkedGroupId, 0, <<>>, <<>>, NoLinkId)
GroupNode(parent, children, name, trans, linkedGroupId) ==
  MkNode("Group", parent, children, name, trans, linkedGroupId, 0, <<>>, <<>>, NoLinkId)
EntityNode(parent, children, origin, properties, protectedProperties, linkId) ==
  MkNode("Entity", parent, children, "", Identity, NoLinkedGroupId, origin, properties,
         protectedProperties, linkId)
BrushNode(parent, origin) ==
  MkNode("Brush", parent, <<>>, "", Identity, NoLinkedGroupId, origin, <<>>, <<>>, NoLinkId)
PatchNode(parent, origin) ==
  MkNode("Patch", parent, <<>>, "", Identity, NoLinkedGroupId, origin, <<>>, <<>>, NoLinkId)

\* Node::isAncestorOf: a is a proper ancestor of n
RECURSIVE isAncestorOf(_, _, _)
isAncestorOf(heap, a, n) ==
  LET p == heap[n].parent
  IN  IF p = NoNode THEN FALSE
      ELSE IF p = a THEN TRUE
      ELSE isAncestorOf(heap, a, p)

\* the nodes of the subtree of n, n first, depth first, children in list order
RECURSIVE collectNodes(_, _), collectNodesOfAll(_, _)
collectNodes(heap, n) == <<n>> \o collectNodesOfAll(heap, heap[n].children)
collectNodesOfAll(heap, list) ==
  IF list = <<>> THEN <<>>
  ELSE collectNodes(heap, Head(list)) \o collectNodesOfAll(heap, Tail(list))

collectNodesToCloneAndTransform(heap, node) ==
  collectNodesOfAll(heap, heap[node].children)

Range(s) == {s[i] : i \in DOMAIN s}

\* kdl::vec_erase: the list without every occurrence of x
vec_erase(list, x) == SelectSeq(list, LAMBDA y : y # x)

(***************************************************************************)
(* Errors                                                                  *)
(***************************************************************************)

NotInvertible == "Group transformation is not invertible"
ExceedsWorldBounds == "Updating a linked node would exceed world bounds"
TransformFailed == "Failed to transform a linked node"
SameLinkSetMultipleMembers == "Cannot update multiple members of the same link set"
InvalidStructure == "ensure: Linked group structure is valid"
InconsistentStructure == "Inconsistent linked group structure"
LinkSetTooSmall == "Link set must contain at least two groups"
SourceEntityHasNoLinkId == "ensure: Source entity has link ID"
AtLeastTwoLinkedGroups == "ensure: Generate entity links for at least two linked groups"
NoCommonLinkedGroupId == "ensure: All groups are linked and share the same ID"
EmptyOptionalDereferenced == "assertion: std::optional is engaged"
NoResult == "nullopt"

\* the fatal assertions, those of the standard library among them: the program
\* ends where one fails
Ensures ==
  {InvalidStructure, SourceEntityHasNoLinkId, AtLeastTwoLinkedGroups, NoCommonLinkedGroupId,
   EmptyOptionalDereferenced}

(***************************************************************************)
(* Results (kdl::result): a value with the heap it lives in, or an error   *)
(***************************************************************************)

Success(heap, value) == [ok |-> TRUE, error |-> "", heap |-> heap, value |-> value]
Failure(error, heap) == [ok |-> FALSE, error |-> error, heap |-> heap, value |-> <<>>]

\* Result::and_then, Result::transform: the continuation runs on a success only
and_then(r, f(_)) == IF r.ok THEN f(r) ELSE r

\* Result::or_else: the continuation runs on an error only
or_else(r, f(_)) == IF r.ok THEN r ELSE f(r)

\* kdl::fold_results over an eager kdl::vec_transform: every element is worked on,
\* also after an error, and the first error is the result; nothing runs after a
\* fatal assertion
firstError(r, q) ==
  IF q.error \in Ensures THEN q ELSE Failure(r.error, q.heap)

and_also(r, f(_)) ==
  IF r.ok THEN f(r)
  ELSE IF r.error \in Ensures THEN r
  ELSE firstError(r, f(r))

(***************************************************************************)
(* Clone-and-transform engine                                              *)
(***************************************************************************)

\* Brush::transform fails on geometry that the transformation makes degenerate
BrushTransformFails(n, transformation) == transformation.a = 0

\* faulty variant: the copy of an entity does not carry the link id
TransformContentsWithoutLinkId(n, wb, transformation) ==
  CASE n.kind = "Group" ->
         [ok |-> TRUE, error |-> "",
          node |-> [n EXCEPT !.trans = MatMul(transformation, n.trans)]]
    [] n.kind = "Entity" ->
         [ok |-> TRUE, error |-> "",
          node |-> [n EXCEPT !.origin = TransformPoint(transformation, n.origin),
                             !.linkId = NoLinkId]]
    [] n.kind = "Brush" ->
         IF BrushTransformFails(n, transformation)
           THEN [ok |-> FALSE, error |-> "brush", node |-> n]
           ELSE [ok |-> TRUE, error |-> "",
                 node |-> [n EXCEPT !.origin = TransformPoint(transformation, n.origin)]]
    [] n.kind = "Patch" ->
         [ok |-> TRUE, error |-> "",
          node |-> [n EXCEPT !.origin = TransformPoint(transformation, n.origin)]]
    [] OTHER -> [ok |-> FALSE, error |-> InvalidStructure, node |-> n]

\* the task of the parallel transform: the node's contents, transformed
TransformContents(n, wb, transformation) ==
  CASE n.kind = "Group" ->
         [ok |-> TRUE, error |-> "",
          node |-> [n EXCEPT !.trans = MatMul(transformation, n.trans)]]
    [] n.kind = "Entity" ->
         [ok |-> TRUE, error |-> "",
          node |-> [n EXCEPT !.origin = TransformPoint(transformation, n.origin)]]
    [] n.kind = "Brush" ->
         IF BrushTransformFails(n, transformation)
           THEN [ok |-> FALSE, error |-> "brush", node |-> n]
           ELSE [ok |-> TRUE, error |-> "",
                 node |-> [n EXCEPT !.origin = TransformPoint(transformation, n.origin)]]
    [] n.kind = "Patch" ->
         [ok |-> TRUE, error |-> "",
          node |-> [n EXCEPT !.origin = TransformPoint(transformation, n.origin)]]
    [] OTHER -> [ok |-> FALSE, error |-> InvalidStructure, node |-> n]

\* logicalBounds() of a node that has no children (a fresh clone)
logicalBounds(n) ==
  CASE n.kind = "Entity" ->
         [min |-> n.origin - EntityHalfSize, max |-> n.origin + EntityHalfSize]
    [] n.kind = "Brush" ->
         [min |-> n.origin - BrushHalfSize, max |-> n.origin + BrushHalfSize]
    [] n.kind = "Patch" -> [min |-> n.origin, max |-> n.origin]
    [] OTHER -> [min |-> 0, max |-> 0]

\* vm::bbox3::contains(bbox)
contains(wb, b) == wb.min <= b.min /\ b.max <= wb.max

\* Node::addChild for each of the clones: children set, parent links set
addChildren(heap, parent, ids) ==
  [i \in DOMAIN heap |->
     IF i = parent THEN [heap[i] EXCEPT !.children = ids]
     ELSE IF i \in Range(ids) THEN [heap[i] EXCEPT !.parent = parent]
     ELSE heap[i]]

\* a new, detached node holding the contents
NewNode(contents) == [contents EXCEPT !.parent = NoNode, !.children = <<>>]

\* the clone of nodeToClone is allocated at the end of the heap, then its children
RECURSIVE cloneAndTransformRecursive(_, _, _, _), cloneAndTransformAll(_, _, _, _)
\* faulty variant: the bounds of the clone are not checked
cloneAndTransformRecursiveUnchecked(heap, nodeToClone, origNodeToTransformedContents, wb) ==
  and_then(
    cloneAndTransformAll(
      Append(heap, NewNode(origNodeToTransformedContents[nodeToClone])),
      heap[nodeToClone].children, origNodeToTransformedContents, wb),
    LAMBDA r : Success(addChildren(r.heap, Len(heap) + 1, r.value), <<Len(heap) + 1>>))

\* faulty variant: the children of the node are not cloned
cloneAndTransformRecursiveShallow(heap, nodeToClone, origNodeToTransformedContents, wb) ==
  IF ~contains(wb, logicalBounds(NewNode(origNodeToTransformedContents[nodeToClone])))
    THEN Failure(ExceedsWorldBounds, heap)
    ELSE Success(Append(heap, NewNode(origNodeToTransformedContents[nodeToClone])),
                 <<Len(heap) + 1>>)

cloneAndTransformRecursive(heap, nodeToClone, origNodeToTransformedContents, wb) ==
  IF ~contains(wb, logicalBounds(NewNode(origNodeToTransformedContents[nodeToClone])))
    THEN Failure(ExceedsWorldBounds, heap)
    ELSE and_then(
           cloneAndTransformAll(
             Append(heap, NewNode(origNodeToTransformedContents[nodeToClone])),
             heap[nodeToClone].children, origNodeToTransformedContents, wb),
           LAMBDA r : Success(addChildren(r.heap, Len(heap) + 1, r.value),
                              <<Len(heap) + 1>>))

\* kdl::fold_results over the clones of a child list: the first error, or all clones
cloneAndTransformAll(heap, list, origNodeToTransformedContents, wb) ==
  IF list = <<>> THEN Success(heap, <<>>)
  ELSE and_then(
         cloneAndTransformRecursive(heap, Head(list), origNodeToTransformedContents, wb),
         LAMBDA r1 :
           and_then(
             cloneAndTransformAll(r1.heap, Tail(list), origNodeToTransformedContents, wb),
             LAMBDA r2 : Success(r2.heap, r1.value \o r2.value)))

\* the transformed contents of every node to clone, by node
transformAll(heap, nodesToClone, wb, transformation) ==
  [n \in Range(nodesToClone) |-> TransformContents(heap[n], wb, transformation)]

\* the second half of cloneAndTransformChildren, on the results of the tasks
cloneTransformed(heap, node, wb, transformResults) ==
  IF \E n \in DOMAIN transformResults : transformResults[n].error = InvalidStructure
    THEN Failure(InvalidStructure, heap)
  ELSE IF \E n \in DOMAIN transformResults : ~transformResults[n].ok
    THEN Failure(TransformFailed, heap)
  ELSE cloneAndTransformAll(heap, heap[node].children,
         [n \in DOMAIN transformResults |-> transformResults[n].node], wb)

cloneAndTransformChildren(heap, node, wb, transformation) ==
  cloneTransformed(heap, node, wb,
    transformAll(heap, collectNodesToCloneAndTransform(heap, node), wb, transformation))

\* kdl::vec_parallel_transform(nodesToClone, task): one task per node, run in any
\* order; a task that completes enters its result in the slot of its node.
\* transformResults holds the slots written so far.
\* faulty variant: the tasks share one slot, every slot written so far takes the
\* result of the task that completes
completeTaskOnSharedSlot(transformResults, heap, nodeToTransform, wb, transformation) ==
  [n \in DOMAIN transformResults \cup {nodeToTransform} |->
     TransformContents(heap[nodeToTransform], wb, transformation)]

completeTask(transformResults, heap, nodeToTransform, wb, transformation) ==
  [n \in DOMAIN transformResults \cup {nodeToTransform} |->
     IF n = nodeToTransform
       THEN TransformContents(heap[nodeToTransform], wb, transformation)
       ELSE transformResults[n]]


(***************************************************************************)
(* Identity reconciliation                                                 *)
(***************************************************************************)

RECURSIVE preserveGroupNames(_, _, _)
\* faulty variant: the children of matching groups are not visited
preserveGroupNamesOfTopLevel(heap, clonedNodes, correspondingNodes) ==
  IF clonedNodes = <<>> \/ correspondingNodes = <<>> THEN heap
  ELSE preserveGroupNames(
         IF heap[Head(clonedNodes)].kind = "Group"
            /\ heap[Head(correspondingNodes)].kind = "Group"
           THEN [heap EXCEPT ![Head(clonedNodes)].name =
                               heap[Head(correspondingNodes)].name]
           ELSE heap,
         Tail(clonedNodes), Tail(correspondingNodes))

preserveGroupNames(heap, clonedNodes, correspondingNodes) ==
  IF clonedNodes = <<>> \/ correspondingNodes = <<>> THEN heap
  ELSE preserveGroupNames(
         IF heap[Head(clonedNodes)].kind = "Group"
            /\ heap[Head(correspondingNodes)].kind = "Group"
           THEN preserveGroupNames(
                  [heap EXCEPT ![Head(clonedNodes)].name =
                                 heap[Head(correspondingNodes)].name],
                  heap[Head(clonedNodes)].children,
                  heap[Head(correspondingNodes)].children)
           ELSE heap,
         Tail(clonedNodes), Tail(correspondingNodes))

\* Entity::property: the value of the key, or NoValue
NoValue == 0
property(properties, key) ==
  IF \E i \in DOMAIN properties : properties[i].key = key
    THEN properties[CHOOSE i \in DOMAIN properties : properties[i].key = key].value
    ELSE NoValue

hasProperty(properties, key) == \E i \in DOMAIN properties : properties[i].key = key

\* Entity::removeProperty
removeProperty(properties, key) == SelectSeq(properties, LAMBDA p : p.key # key)

\* Entity::addOrUpdateProperty: updated in place, or added at the end
addOrUpdateProperty(properties, key, value) ==
  IF hasProperty(properties, key)
    THEN [i \in DOMAIN properties |->
            IF properties[i].key = key THEN [key |-> key, value |-> value]
            ELSE properties[i]]
    ELSE Append(properties, [key |-> key, value |-> value])

\* kdl::vec_sort_and_remove_duplicates of a set of numbers: ascending
RECURSIVE SortedSeqOf(_)
SortedSeqOf(S) ==
  IF S = {} THEN <<>>
  ELSE LET m == CHOOSE x \in S : \A y \in S : x <= y
       IN  <<m>> \o SortedSeqOf(S \ {m})

\* faulty variant: the key is updated where it stands instead of removed and added
restorePropertyInPlace(properties, correspondingProperties, key) ==
  IF hasProperty(correspondingProperties, key)
    THEN addOrUpdateProperty(properties, key, property(correspondingProperties, key))
    ELSE removeProperty(properties, key)

\* faulty variant: a key the corresponding entity lacks keeps the clone's value
restorePropertyIfPresent(properties, correspondingProperties, key) ==
  IF hasProperty(correspondingProperties, key)
    THEN addOrUpdateProperty(removeProperty(properties, key), key,
                             property(correspondingProperties, key))
    ELSE properties

\* the body of the loop over allProtectedProperties, for one key
restoreProperty(properties, correspondingProperties, key) ==
  IF hasProperty(correspondingProperties, key)
    THEN addOrUpdateProperty(removeProperty(properties, key), key,
                             property(correspondingProperties, key))
    ELSE removeProperty(properties, key)

RECURSIVE restoreProtected(_, _, _)
restoreProtected(properties, correspondingProperties, keys) ==
  IF keys = <<>> THEN properties
  ELSE restoreProtected(
         restoreProperty(properties, correspondingProperties, Head(keys)),
         correspondingProperties, Tail(keys))

\* faulty variant: all properties are taken from the corresponding entity
preserveEntityPropertiesOfNodeWholesale(cloned, corresponding) ==
  IF cloned.protectedProperties = <<>> /\ corresponding.protectedProperties = <<>>
    THEN cloned
    ELSE [cloned EXCEPT
            !.protectedProperties = corresponding.protectedProperties,
            !.properties = corresponding.properties]

\* faulty variant: the clone keeps the protected properties of the source entity
preserveEntityPropertiesOfNodeKeepingProtection(cloned, corresponding) ==
  IF cloned.protectedProperties = <<>> /\ corresponding.protectedProperties = <<>>
    THEN cloned
    ELSE [cloned EXCEPT
            !.properties =
              restoreProtected(cloned.properties, corresponding.properties,
                SortedSeqOf(Range(cloned.protectedProperties)
                              \cup Range(corresponding.protectedProperties)))]

\* preserveEntityProperties(EntityNode&, const EntityNode&)
preserveEntityPropertiesOfNode(cloned, corresponding) ==
  IF cloned.protectedProperties = <<>> /\ corresponding.protectedProperties = <<>>
    THEN cloned
    ELSE [cloned EXCEPT
            !.protectedProperties = corresponding.protectedProperties,
            !.properties =
              restoreProtected(cloned.properties, corresponding.properties,
                SortedSeqOf(Range(cloned.protectedProperties)
                              \cup Range(corresponding.protectedProperties)))]

RECURSIVE preserveEntityProperties(_, _, _)
\* faulty variant: a cloned entity is reconciled with a corresponding node of any
\* variant
preserveEntityPropertiesOfAnyVariant(heap, clonedNodes, correspondingNodes) ==
  IF clonedNodes = <<>> \/ correspondingNodes = <<>> THEN heap
  ELSE preserveEntityProperties(
         IF heap[Head(clonedNodes)].kind = "Group"
            /\ heap[Head(correspondingNodes)].kind = "Group"
           THEN preserveEntityProperties(heap, heap[Head(clonedNodes)].children,
                  heap[Head(correspondingNodes)].children)
         ELSE IF heap[Head(clonedNodes)].kind = "Entity"
           THEN [heap EXCEPT ![Head(clonedNodes)] =
                   preserveEntityPropertiesOfNode(heap[Head(clonedNodes)],
                                                  heap[Head(correspondingNodes)])]
         ELSE heap,
         Tail(clonedNodes), Tail(correspondingNodes))

preserveEntityProperties(heap, clonedNodes, correspondingNodes) ==
  IF clonedNodes = <<>> \/ correspondingNodes = <<>> THEN heap
  ELSE preserveEntityProperties(
         IF heap[Head(clonedNodes)].kind = "Group"
            /\ heap[Head(correspondingNodes)].kind = "Group"
           THEN preserveEntityProperties(heap, heap[Head(clonedNodes)].children,
                  heap[Head(correspondingNodes)].children)
         ELSE IF heap[Head(clonedNodes)].kind = "Entity"
                 /\ heap[Head(correspondingNodes)].kind = "Entity"
           THEN [heap EXCEPT ![Head(clonedNodes)] =
                   preserveEntityPropertiesOfNode(heap[Head(clonedNodes)],
                                                  heap[Head(correspondingNodes)])]
         ELSE heap,
         Tail(clonedNodes), Tail(correspondingNodes))

(***************************************************************************)
(* updateLinkedGroups                                                      *)
(***************************************************************************)

\* faulty variant: the source group's transformation is not undone
targetTransformationOfTargetOnly(target, invertedSourceTransformation) == target.trans

\* the transformation applied to the clones made for one target
targetTransformation(target, invertedSourceTransformation) ==
  MatMul(target.trans, invertedSourceTransformation)

\* faulty variant: the passes write into the target's children
preserveNamesAndPropertiesOfTarget(heap, newChildren, targetChildren) ==
  preserveEntityProperties(preserveGroupNames(heap, targetChildren, newChildren),
                           targetChildren, newChildren)

\* the two preservation passes on the new children of one target
preserveNamesAndProperties(heap, newChildren, targetChildren) ==
  preserveEntityProperties(preserveGroupNames(heap, newChildren, targetChildren),
                           newChildren, targetChildren)

\* the fold over the targets: the first error, or one pair per target
RECURSIVE updateTargets(_, _, _, _, _)
\* faulty variant: a target whose clones cannot be made is left out
updateTargetsSkippingFailed(heap, sourceGroupNode, targets, invertedSourceTransformation, wb) ==
  IF targets = <<>> THEN Success(heap, <<>>)
  ELSE or_else(
         and_then(
           cloneAndTransformChildren(heap, sourceGroupNode, wb,
             targetTransformation(heap[Head(targets)], invertedSourceTransformation)),
           LAMBDA c :
             and_then(
               updateTargets(
                 preserveNamesAndProperties(c.heap, c.value, heap[Head(targets)].children),
                 sourceGroupNode, Tail(targets), invertedSourceTransformation, wb),
               LAMBDA rest :
                 Success(rest.heap,
                         <<[node |-> Head(targets), children |-> c.value]>> \o rest.value))),
         LAMBDA e :
           updateTargets(heap, sourceGroupNode, Tail(targets),
                         invertedSourceTransformation, wb))

updateTargets(heap, sourceGroupNode, targets, invertedSourceTransformation, wb) ==
  IF targets = <<>> THEN Success(heap, <<>>)
  ELSE and_then(
         cloneAndTransformChildren(heap, sourceGroupNode, wb,
           targetTransformation(heap[Head(targets)], invertedSourceTransformation)),
         LAMBDA c :
           and_then(
             updateTargets(
               preserveNamesAndProperties(c.heap, c.value, heap[Head(targets)].children),
               sourceGroupNode, Tail(targets), invertedSourceTransformation, wb),
             LAMBDA rest :
               Success(rest.heap,
                       <<[node |-> Head(targets), children |-> c.value]>> \o rest.value)))

\* faulty variant: the source group is not erased from the targets
updateLinkedGroupsWithSource(heap, sourceGroupNode, targetGroupNodes, wb) ==
  IF ~invert(heap[sourceGroupNode].trans).success
    THEN Failure(NotInvertible, heap)
    ELSE or_else(
           updateTargets(heap, sourceGroupNode, targetGroupNodes,
             invert(heap[sourceGroupNode].trans).m, wb),
           LAMBDA e : Failure(e.error, heap))

\* faulty variant: the success of the inversion is not looked at
updateLinkedGroupsUninverted(heap, sourceGroupNode, targetGroupNodes, wb) ==
  or_else(
    updateTargets(heap, sourceGroupNode,
      vec_erase(targetGroupNodes, sourceGroupNode),
      invert(heap[sourceGroupNode].trans).m, wb),
    LAMBDA e : Failure(e.error, heap))

\* faulty variant: the source's transformation is taken through the group that
\* contains the source
updateLinkedGroupsThroughContainer(heap, sourceGroupNode, targetGroupNodes, wb) ==
  LET container == heap[heap[sourceGroupNode].parent]
      transformation ==
        IF container.kind = "Group"
          THEN MatMul(container.trans, heap[sourceGroupNode].trans)
          ELSE heap[sourceGroupNode].trans
  IN IF ~invert(transformation).success
       THEN Failure(NotInvertible, heap)
       ELSE or_else(
              updateTargets(heap, sourceGroupNode,
                vec_erase(targetGroupNodes, sourceGroupNode),
                invert(transformation).m, wb),
              LAMBDA e : Failure(e.error, heap))

\* Result<UpdateLinkedGroupsResult>: on success the pairs, their clones allocated
\* in the returned heap; on an error the heap as it was
updateLinkedGroups(heap, sourceGroupNode, targetGroupNodes, wb) ==
  IF ~invert(heap[sourceGroupNode].trans).success
    THEN Failure(NotInvertible, heap)
    ELSE or_else(
           updateTargets(heap, sourceGroupNode,
             vec_erase(targetGroupNodes, sourceGroupNode),
             invert(heap[sourceGroupNode].trans).m, wb),
           LAMBDA e : Failure(e.error, heap))

(***************************************************************************)
(* Link ids: setLinkIds, copyLinkIds, resetLinkIds (Model/GroupNode.cpp)   *)
(***************************************************************************)

\* the link ids in use in the heap
UsedLinkIds(heap) == {heap[n].linkId : n \in DOMAIN heap} \ {NoLinkId}

\* generateUuid: an id that is not among the used ones
generateUuid(used) ==
  IF used = {} THEN 1 ELSE (CHOOSE m \in used : \A u \in used : u <= m) + 1

\* the first walk of setLinkIds: a new link id for every entity below the source,
\* not entering nested groups that are linked with another id
RECURSIVE assignLinkIds(_, _, _), assignLinkIdsOfAll(_, _, _)
\* faulty variant: nested groups linked with another id are entered as well
assignLinkIdsEverywhere(heap, n, sourceLinkedGroupId) ==
  CASE heap[n].kind = "Group" ->
         assignLinkIdsOfAll(heap, heap[n].children, sourceLinkedGroupId)
    [] heap[n].kind = "Entity" ->
         assignLinkIdsOfAll(
           [heap EXCEPT ![n].linkId = generateUuid(UsedLinkIds(heap))],
           heap[n].children, sourceLinkedGroupId)
    [] OTHER -> heap

\* faulty variant: nested groups that are not linked are not entered either
assignLinkIdsOfOwnGroups(heap, n, sourceLinkedGroupId) ==
  CASE heap[n].kind = "Group" ->
         IF heap[n].linkedGroupId = sourceLinkedGroupId
           THEN assignLinkIdsOfAll(heap, heap[n].children, sourceLinkedGroupId)
           ELSE heap
    [] heap[n].kind = "Entity" ->
         assignLinkIdsOfAll(
           [heap EXCEPT ![n].linkId = generateUuid(UsedLinkIds(heap))],
           heap[n].children, sourceLinkedGroupId)
    [] OTHER -> heap

assignLinkIds(heap, n, sourceLinkedGroupId) ==
  CASE heap[n].kind = "Group" ->
         IF heap[n].linkedGroupId = NoLinkedGroupId
            \/ heap[n].linkedGroupId = sourceLinkedGroupId
           THEN assignLinkIdsOfAll(heap, heap[n].children, sourceLinkedGroupId)
           ELSE heap
    [] heap[n].kind = "Entity" ->
         assignLinkIdsOfAll(
           [heap EXCEPT ![n].linkId = generateUuid(UsedLinkIds(heap))],
           heap[n].children, sourceLinkedGroupId)
    [] OTHER -> heap

assignLinkIdsOfAll(heap, list, sourceLinkedGroupId) ==
  IF list = <<>> THEN heap
  ELSE assignLinkIdsOfAll(assignLinkIds(heap, Head(list), sourceLinkedGroupId),
                          Tail(list), sourceLinkedGroupId)

\* what the visitor of a position returns: an error, or whether to recurse
Visited(ok, recurse, heap) ==
  [ok |-> ok, recurse |-> recurse, heap |-> heap,
   error |-> IF ok THEN "" ELSE InconsistentStructure]

\* checkType<N>(node, successResult)
checkType(kind, heap, node, successResult) ==
  Visited(heap[node].kind = kind, successResult, heap)

\* the visitor made by makeCopyLinkIds(containingLinkedGroupId)
makeCopyLinkIds(heap, sourceNode, targetNode, containingLinkedGroupId) ==
  CASE heap[sourceNode].kind = "World" -> checkType("World", heap, targetNode, TRUE)
    [] heap[sourceNode].kind = "Layer" -> checkType("World", heap, targetNode, TRUE)
    [] heap[sourceNode].kind = "Group" ->
         checkType("Group", heap, targetNode,
                   \/ heap[sourceNode].linkedGroupId = NoLinkedGroupId
                   \/ heap[sourceNode].linkedGroupId = containingLinkedGroupId)
    [] heap[sourceNode].kind = "Entity" ->
         IF heap[targetNode].kind # "Entity" THEN Visited(FALSE, FALSE, heap)
         ELSE IF heap[sourceNode].linkId = NoLinkId
           THEN [Visited(FALSE, FALSE, heap) EXCEPT !.error = SourceEntityHasNoLinkId]
         ELSE Visited(TRUE, TRUE,
                      [heap EXCEPT ![targetNode].linkId = heap[sourceNode].linkId])
    [] heap[sourceNode].kind = "Brush" -> checkType("Brush", heap, targetNode, FALSE)
    [] heap[sourceNode].kind = "Patch" -> checkType("Patch", heap, targetNode, FALSE)

\* visitNodesPerPosition(sourceNode, targetNode, f) of GroupNode.cpp, with the
\* visitor of makeCopyLinkIds
RECURSIVE visitNodesPerPosition(_, _, _, _), visitChildrenPerPosition(_, _, _, _)
\* faulty variant: the child counts are compared at every position, whether or
\* not the visitor asks to recurse
visitNodesPerPositionOfEqualCounts(heap, sourceNode, targetNode, containingLinkedGroupId) ==
  LET v == makeCopyLinkIds(heap, sourceNode, targetNode, containingLinkedGroupId)
  IN IF ~v.ok THEN Failure(v.error, v.heap)
     ELSE IF Len(heap[sourceNode].children) # Len(heap[targetNode].children)
       THEN Failure(InconsistentStructure, v.heap)
     ELSE IF ~v.recurse THEN Success(v.heap, <<>>)
     ELSE visitChildrenPerPosition(v.heap, heap[sourceNode].children,
                                   heap[targetNode].children, containingLinkedGroupId)

visitNodesPerPosition(heap, sourceNode, targetNode, containingLinkedGroupId) ==
  LET v == makeCopyLinkIds(heap, sourceNode, targetNode, containingLinkedGroupId)
  IN IF ~v.ok THEN Failure(v.error, v.heap)
     ELSE IF ~v.recurse THEN Success(v.heap, <<>>)
     ELSE IF Len(heap[sourceNode].children) # Len(heap[targetNode].children)
       THEN Failure(InconsistentStructure, v.heap)
     ELSE visitChildrenPerPosition(v.heap, heap[sourceNode].children,
                                   heap[targetNode].children, containingLinkedGroupId)

visitChildrenPerPosition(heap, sourceChildren, targetChildren, containingLinkedGroupId) ==
  IF sourceChildren = <<>> THEN Success(heap, <<>>)
  ELSE and_also(
         visitNodesPerPosition(heap, Head(sourceChildren), Head(targetChildren),
                               containingLinkedGroupId),
         LAMBDA r : visitChildrenPerPosition(r.heap, Tail(sourceChildren),
                                             Tail(targetChildren),
                                             containingLinkedGroupId))

\* *group().linkedGroupId() on a group that is not linked dereferences an empty
\* std::optional, which is undefined: a build ends the program (the assertions
\* of the standard library), or it reads the string that the memory of the
\* optional holds, an id that groups are linked with or one that none is
UnmatchedLinkedGroupId == -1

Aborts == [abort |-> TRUE, read |-> UnmatchedLinkedGroupId]

Reads(linkedGroupId) == [abort |-> FALSE, read |-> linkedGroupId]

EmptyDereferences(heap) ==
  {Aborts, Reads(UnmatchedLinkedGroupId)}
    \cup {Reads(heap[n].linkedGroupId) :
            n \in {m \in DOMAIN heap : /\ heap[m].kind = "Group"
                                       /\ heap[m].linkedGroupId # NoLinkedGroupId}}

\* what the dereferences of a call can do: nothing to choose where every group
\* that is dereferenced is linked
EmptyDereferencesOf(heap, groupNodes) ==
  IF \A i \in DOMAIN groupNodes : heap[groupNodes[i]].linkedGroupId # NoLinkedGroupId
    THEN {Reads(UnmatchedLinkedGroupId)}
    ELSE EmptyDereferences(heap)

\* emptyDereference is what the build does for a sourceNode that is not linked
copyLinkIds(heap, sourceNode, targetNode, emptyDereference) ==
  IF heap[sourceNode].linkedGroupId # NoLinkedGroupId
    THEN visitNodesPerPosition(heap, sourceNode, targetNode,
                               heap[sourceNode].linkedGroupId)
  ELSE IF emptyDereference.abort
    THEN Failure(EmptyOptionalDereferenced, heap)
  ELSE visitNodesPerPosition(heap, sourceNode, targetNode, emptyDereference.read)

\* the fold over the other groups: the link ids are copied to every one of them
RECURSIVE copyLinkIdsToAll(_, _, _, _)
\* faulty variant: the link ids are copied to the first of the other groups only
copyLinkIdsToFirst(heap, sourceGroupNode, targetGroupNodes, emptyDereference) ==
  IF targetGroupNodes = <<>> THEN Success(heap, <<>>)
  ELSE copyLinkIds(heap, sourceGroupNode, Head(targetGroupNodes), emptyDereference)

copyLinkIdsToAll(heap, sourceGroupNode, targetGroupNodes, emptyDereference) ==
  IF targetGroupNodes = <<>> THEN Success(heap, <<>>)
  ELSE and_also(
         copyLinkIds(heap, sourceGroupNode, Head(targetGroupNodes), emptyDereference),
         LAMBDA r : copyLinkIdsToAll(r.heap, sourceGroupNode, Tail(targetGroupNodes),
                                     emptyDereference))

\* resetLinkIds: the link id of every entity at or below the given nodes is cleared
RECURSIVE resetLinkIdsOf(_, _), resetLinkIds(_, _)
resetLinkIdsOf(heap, n) ==
  CASE heap[n].kind \in {"World", "Layer", "Group"} -> resetLinkIds(heap, heap[n].children)
    [] heap[n].kind = "Entity" -> [heap EXCEPT ![n].linkId = NoLinkId]
    [] OTHER -> heap

\* faulty variant: only the first of the given groups is reset
resetLinkIdsOfFirst(heap, groupNodes) ==
  IF groupNodes = <<>> THEN heap ELSE resetLinkIdsOf(heap, Head(groupNodes))

resetLinkIds(heap, groupNodes) ==
  IF groupNodes = <<>> THEN heap
  ELSE resetLinkIds(resetLinkIdsOf(heap, Head(groupNodes)), Tail(groupNodes))

\* faulty variant: a single group is given link ids
setLinkIdsOfAny(heap, groupNodes, emptyDereference) ==
  IF Len(groupNodes) < 1
    THEN Failure(LinkSetTooSmall, heap)
    ELSE or_else(
           copyLinkIdsToAll(
             assignLinkIds(heap, Head(groupNodes), heap[Head(groupNodes)].linkedGroupId),
             Head(groupNodes), Tail(groupNodes), emptyDereference),
           LAMBDA e :
             IF e.error \in Ensures THEN e
             ELSE Failure(e.error, resetLinkIds(e.heap, groupNodes)))

\* faulty variant: the link ids are not reset after an error
setLinkIdsWithoutReset(heap, groupNodes, emptyDereference) ==
  IF Len(groupNodes) < 2
    THEN Failure(LinkSetTooSmall, heap)
    ELSE copyLinkIdsToAll(
           assignLinkIds(heap, Head(groupNodes), heap[Head(groupNodes)].linkedGroupId),
           Head(groupNodes), Tail(groupNodes), emptyDereference)

setLinkIds(heap, groupNodes, emptyDereference) ==
  IF Len(groupNodes) < 2
    THEN Failure(LinkSetTooSmall, heap)
    ELSE or_else(
           copyLinkIdsToAll(
             assignLinkIds(heap, Head(groupNodes), heap[Head(groupNodes)].linkedGroupId),
             Head(groupNodes), Tail(groupNodes), emptyDereference),
           LAMBDA e :
             IF e.error \in Ensures THEN e
             ELSE Failure(e.error, resetLinkIds(e.heap, groupNodes)))

(***************************************************************************)
(* generateEntityLinkIds (View/UpdateLinkedGroupsHelper.cpp)               *)
(***************************************************************************)

\* the std::unordered_map from entity nodes to link ids: a function
NoEntityLinkIds == [n \in {} |-> NoLinkId]

IdsOf(map) == {map[n] : n \in DOMAIN map}

\* faulty variant: the new id is not kept apart from the ids given before
assignEntityLinkIdReusing(heap, toVisit, map) ==
  IF heap[toVisit[1]].kind # "Entity" THEN Success(heap, map)
  ELSE IF \E i \in DOMAIN toVisit : heap[toVisit[i]].kind # "Entity"
    THEN Failure(NoResult, heap)
  ELSE Success(heap,
         [n \in DOMAIN map \cup Range(toVisit) |->
            IF n \in Range(toVisit)
              THEN generateUuid(UsedLinkIds(heap))
              ELSE map[n]])

\* the visitor of generateEntityLinkIds: where the first group has an entity, one
\* new id for the nodes at the position, which must all be entities
assignEntityLinkId(heap, toVisit, map) ==
  IF heap[toVisit[1]].kind # "Entity" THEN Success(heap, map)
  ELSE IF \E i \in DOMAIN toVisit : heap[toVisit[i]].kind # "Entity"
    THEN Failure(NoResult, heap)
  ELSE Success(heap,
         [n \in DOMAIN map \cup Range(toVisit) |->
            IF n \in Range(toVisit)
              THEN generateUuid(UsedLinkIds(heap) \cup IdsOf(map))
              ELSE map[n]])

\* visitNodesPerPosition(nodes, f) of UpdateLinkedGroupsHelper.cpp, with the
\* visitor of generateEntityLinkIds: it stops at the first position that fails
RECURSIVE visitNodesPerPositionOfAll(_, _, _), visitChildPositions(_, _, _, _)
visitNodesPerPositionOfAll(heap, toVisit, map) ==
  IF toVisit = <<>> THEN Success(heap, map)
  ELSE and_then(
         assignEntityLinkId(heap, toVisit, map),
         LAMBDA v :
           IF \E i \in DOMAIN toVisit :
                Len(heap[toVisit[i]].children) # Len(heap[toVisit[1]].children)
             THEN Failure(NoResult, heap)
             ELSE visitChildPositions(heap, toVisit, 1, v.value))

\* the loop over the child positions, from the i-th on
visitChildPositions(heap, toVisit, i, map) ==
  IF i > Len(heap[toVisit[1]].children) THEN Success(heap, map)
  ELSE and_then(
         visitNodesPerPositionOfAll(
           heap, [k \in DOMAIN toVisit |-> heap[toVisit[k]].children[i]], map),
         LAMBDA r : visitChildPositions(heap, toVisit, i + 1, r.value))

\* std::optional of the map: Success with the map, or NoResult; a fatal assertion
\* when there are fewer than two groups or no linked group id common to all
generateEntityLinkIds(heap, groupNodes) ==
  IF Len(groupNodes) <= 1 THEN Failure(AtLeastTwoLinkedGroups, heap)
  ELSE IF \/ heap[groupNodes[1]].linkedGroupId = NoLinkedGroupId
          \/ \E i \in DOMAIN groupNodes :
               heap[groupNodes[i]].linkedGroupId # heap[groupNodes[1]].linkedGroupId
    THEN Failure(NoCommonLinkedGroupId, heap)
  ELSE visitNodesPerPositionOfAll(heap, groupNodes, NoEntityLinkIds)

(***************************************************************************)
(* Adding children to a group node                                         *)
(***************************************************************************)

\* the linked group ids of parentNode and of its ancestors
RECURSIVE ancestorLinkedGroupIds(_, _)
ancestorLinkedGroupIds(heap, node) ==
  IF node = NoNode THEN {}
  ELSE (IF heap[node].kind = "Group" /\ heap[node].linkedGroupId # NoLinkedGroupId
          THEN {heap[node].linkedGroupId} ELSE {})
       \cup ancestorLinkedGroupIds(heap, heap[node].parent)

\* the linked group ids of groupNodeToAdd and of the groups below it; the visitor
\* goes on through the children of groups only
RECURSIVE linkedGroupIdsToAdd(_, _)
linkedGroupIdsToAdd(heap, node) ==
  IF heap[node].kind # "Group" THEN {}
  ELSE (IF heap[node].linkedGroupId # NoLinkedGroupId
          THEN {heap[node].linkedGroupId} ELSE {})
       \cup UNION {linkedGroupIdsToAdd(heap, heap[node].children[k])
                   : k \in DOMAIN heap[node].children}

\* kdl::set_has_shared_element of the two
checkRecursiveLinkedGroups(heap, parentNode, groupNodeToAdd) ==
  ancestorLinkedGroupIds(heap, parentNode) \cap linkedGroupIdsToAdd(heap, groupNodeToAdd) # {}

\* faulty variant: only the ids of the two nodes themselves are compared
doCanAddChildOfSameId(heap, this, child) ==
  CASE heap[child].kind \in {"World", "Layer"} -> FALSE
    [] heap[child].kind = "Group" ->
         \/ heap[child].linkedGroupId = NoLinkedGroupId
         \/ heap[child].linkedGroupId # heap[this].linkedGroupId
    [] OTHER -> TRUE

\* faulty variant: layers are taken as children
doCanAddChildOfLayers(heap, this, child) ==
  CASE heap[child].kind = "World" -> FALSE
    [] heap[child].kind = "Group" -> ~checkRecursiveLinkedGroups(heap, this, child)
    [] OTHER -> TRUE

\* GroupNode::doCanAddChild
doCanAddChild(heap, this, child) ==
  CASE heap[child].kind \in {"World", "Layer"} -> FALSE
    [] heap[child].kind = "Group" -> ~checkRecursiveLinkedGroups(heap, this, child)
    [] OTHER -> TRUE

\* Node::canAddChild of a group node: never the node itself or one of its ancestors
canAddChild(heap, this, child) ==
  /\ child # this
  /\ ~isAncestorOf(heap, child, this)
  /\ doCanAddChild(heap, this, child)

\* LayerNode::doCanAddChild behind Node::canAddChild: anything but worlds and layers
canAddChildToLayer(heap, this, child) ==
  /\ child # this
  /\ ~isAncestorOf(heap, child, this)
  /\ heap[child].kind \notin {"World", "Layer"}

\* Node::addChild: the child is appended to the children and gets its parent
addChild(heap, parent, child) ==
  [heap EXCEPT ![parent].children = Append(@, child), ![child].parent = parent]

\* Group: the name, the transformation and the linked group id of a group node
Group(name, transformation, linkedGroupId) ==
  [name |-> name, trans |-> transformation, linkedGroupId |-> linkedGroupId]

\* GroupNode::setGroup: the group of the node is exchanged for the given one
setGroup(heap, node, group) ==
  [heap EXCEPT ![node].name = group.name,
               ![node].trans = group.trans,
               ![node].linkedGroupId = group.linkedGroupId]

(***************************************************************************)
(* Edit state of group nodes                                               *)
(***************************************************************************)

\* EditState
Closed == "Closed"
Open == "Open"
DescendantOpen == "DescendantOpen"

\* a node with the member m_editState, which a new group node has as Closed
WithEditState(n) ==
  [f \in DOMAIN n \cup {"editState"} |-> IF f = "editState" THEN Closed ELSE n[f]]

opened(heap, g) == heap[g].editState = Open
hasOpenedDescendant(heap, g) == heap[g].editState = DescendantOpen
closed(heap, g) == heap[g].editState = Closed

setEditState(heap, g, editState) == [heap EXCEPT ![g].editState = editState]

RECURSIVE setAncestorEditState(_, _, _)
\* faulty variant: only the parent is visited
setAncestorEditStateOfParent(heap, node, editState) ==
  LET p == heap[node].parent
  IN  IF p = NoNode THEN heap
      ELSE IF heap[p].kind = "Group" THEN setEditState(heap, p, editState)
      ELSE heap

\* visitParent with a visitor that goes on to the parent from every node and
\* sets the edit state of the group nodes it meets
setAncestorEditState(heap, node, editState) ==
  LET p == heap[node].parent
  IN  IF p = NoNode THEN heap
      ELSE IF heap[p].kind = "Group"
        THEN setAncestorEditState(setEditState(heap, p, editState), p, editState)
      ELSE setAncestorEditState(heap, p, editState)

openAncestors(heap, g) == setAncestorEditState(heap, g, DescendantOpen)
closeAncestors(heap, g) == setAncestorEditState(heap, g, Closed)

\* GroupNode::open and GroupNode::close, called where their assertions hold
open(heap, g) == openAncestors(setEditState(heap, g, Open), g)
close(heap, g) == closeAncestors(setEditState(heap, g, Closed), g)

(***************************************************************************)
(* Document facade                                                         *)
(***************************************************************************)

\* Model::findLinkedGroups({world}, linkedGroupId): the group nodes below the
\* world that carry the id, in traversal order
findLinkedGroups(heap, root, linkedGroupId) ==
  SelectSeq(collectNodes(heap, root),
            LAMBDA n : heap[n].kind = "Group" /\ heap[n].linkedGroupId = linkedGroupId)

\* Node::replaceChildren: the old children are detached, the new ones attached
replaceChildren(heap, parent, newChildren) ==
  [i \in DOMAIN heap |->
     IF i = parent THEN [heap[i] EXCEPT !.children = newChildren]
     ELSE IF i \in Range(newChildren) THEN [heap[i] EXCEPT !.parent = parent]
     ELSE IF i \in Range(heap[parent].children) THEN [heap[i] EXCEPT !.parent = NoNode]
     ELSE heap[i]]

\* MapDocumentCommandFacade::performReplaceChildren: pair by pair, in list order;
\* returns the pairs of the nodes with their previous children
RECURSIVE performReplaceChildren(_, _)
performReplaceChildren(heap, nodesToReplace) ==
  IF nodesToReplace = <<>> THEN Success(heap, <<>>)
  ELSE and_then(
         performReplaceChildren(
           replaceChildren(heap, Head(nodesToReplace).node, Head(nodesToReplace).children),
           Tail(nodesToReplace)),
         LAMBDA rest :
           Success(rest.heap,
                   <<[node |-> Head(nodesToReplace).node,
                      children |-> heap[Head(nodesToReplace).node].children]>>
                     \o rest.value))

(***************************************************************************)
(* UpdateLinkedGroupsHelper                                                *)
(***************************************************************************)

compareByAncestry(heap, lhs, rhs) == isAncestorOf(heap, rhs, lhs)

\* the comparator requirement of std::sort: a strict weak ordering of the elements
isStrictWeakOrdering(heap, S) ==
  \A x \in S, y \in S, z \in S :
    /\ ~compareByAncestry(heap, x, x)
    /\ compareByAncestry(heap, x, y) /\ compareByAncestry(heap, y, z)
         => compareByAncestry(heap, x, z)
    /\ /\ ~compareByAncestry(heap, x, y) /\ ~compareByAncestry(heap, y, x)
       /\ ~compareByAncestry(heap, y, z) /\ ~compareByAncestry(heap, z, y)
         => ~compareByAncestry(heap, x, z) /\ ~compareByAncestry(heap, z, x)

\* the permutations of a list
Rearrangements(list) ==
  {[i \in DOMAIN list |-> list[f[i]]] :
     f \in {g \in [DOMAIN list -> DOMAIN list] :
              \A i \in DOMAIN list, j \in DOMAIN list : i # j => g[i] # g[j]}}

\* kdl::vec_sort(changedLinkedGroups, compareByAncestry), a std::sort: the lists it
\* can return.  std::sort is not stable, and it requires a strict weak ordering:
\* where compareByAncestry is none on the elements (a group unrelated to both a
\* group and its descendant), the order of the result is not defined.
sortByAncestry(heap, list) ==
  IF isStrictWeakOrdering(heap, Range(list))
    THEN {p \in Rearrangements(list) :
            \A i \in DOMAIN p, j \in DOMAIN p :
              i < j => ~compareByAncestry(heap, p[j], p[i])}
    ELSE Rearrangements(list)

\* kdl::vec_sort of the linked group ids (std::nullopt is the least)
RECURSIVE sortIds(_)
sortIds(ids) ==
  IF ids = <<>> THEN <<>>
  ELSE LET m == CHOOSE i \in DOMAIN ids : \A j \in DOMAIN ids : ids[i] <= ids[j]
       IN  <<ids[m]>> \o sortIds(SubSeq(ids, 1, m - 1) \o SubSeq(ids, m + 1, Len(ids)))

\* std::adjacent_find(...) == end
noAdjacentEqual(ids) == \A i \in 1..(Len(ids) - 1) : ids[i] # ids[i + 1]

\* faulty variant: the ids are compared pairwise without having been sorted
checkLinkedGroupsToUpdateUnsorted(heap, changedLinkedGroups) ==
  noAdjacentEqual([i \in DOMAIN changedLinkedGroups |->
                     heap[changedLinkedGroups[i]].linkedGroupId])

checkLinkedGroupsToUpdate(heap, changedLinkedGroups) ==
  noAdjacentEqual(sortIds([i \in DOMAIN changedLinkedGroups |->
                             heap[changedLinkedGroups[i]].linkedGroupId]))

\* m_state: the variant holds ChangedLinkedGroups or LinkedGroupUpdates
NoHelper == [tag |-> "none", changedLinkedGroups |-> <<>>, linkedGroupUpdates |-> <<>>]

ChangedLinkedGroups(groups) ==
  [tag |-> "ChangedLinkedGroups", changedLinkedGroups |-> groups,
   linkedGroupUpdates |-> <<>>]

LinkedGroupUpdates(updates) ==
  [tag |-> "LinkedGroupUpdates", changedLinkedGroups |-> <<>>,
   linkedGroupUpdates |-> updates]

\* the constructor: the states the new helper can have
UpdateLinkedGroupsHelper(heap, changedLinkedGroups) ==
  {ChangedLinkedGroups(sorted) : sorted \in sortByAncestry(heap, changedLinkedGroups)}

\* the members of the link set of groupNode in the document, without groupNode;
\* emptyDereference is what the build does for a groupNode that is not linked
groupNodesToUpdate(heap, groupNode, emptyDereference) ==
  IF heap[groupNode].linkedGroupId # NoLinkedGroupId
    THEN Success(heap,
           vec_erase(findLinkedGroups(heap, WorldId, heap[groupNode].linkedGroupId),
                     groupNode))
  ELSE IF emptyDereference.abort
    THEN Failure(EmptyOptionalDereferenced, heap)
  ELSE Success(heap,
         vec_erase(findLinkedGroups(heap, WorldId, emptyDereference.read), groupNode))

\* the fold over the pending groups, each of which is worked on: the first
\* error, or the flattened pairs
RECURSIVE updateAllLinkedGroups(_, _, _, _)
updateAllLinkedGroups(heap, changedLinkedGroups, wb, emptyDereference) ==
  IF changedLinkedGroups = <<>> THEN Success(heap, <<>>)
  ELSE and_also(
         and_then(
           groupNodesToUpdate(heap, Head(changedLinkedGroups), emptyDereference),
           LAMBDA t :
             updateLinkedGroups(heap, Head(changedLinkedGroups), t.value, wb)),
         LAMBDA r :
           and_then(
             updateAllLinkedGroups(r.heap, Tail(changedLinkedGroups), wb,
                                   emptyDereference),
             LAMBDA rest : Success(rest.heap, r.value \o rest.value)))

\* faulty variant: the check of the pending groups' link sets is left out
computeLinkedGroupUpdatesOfUnchecked(heap, wb, changedLinkedGroups, emptyDereference) ==
  or_else(updateAllLinkedGroups(heap, changedLinkedGroups, wb, emptyDereference),
          LAMBDA e : Failure(e.error, heap))

\* the static computeLinkedGroupUpdates(changedLinkedGroups, document)
computeLinkedGroupUpdatesOf(heap, wb, changedLinkedGroups, emptyDereference) ==
  IF ~checkLinkedGroupsToUpdate(heap, changedLinkedGroups)
    THEN Failure(SameLinkSetMultipleMembers, heap)
    ELSE or_else(updateAllLinkedGroups(heap, changedLinkedGroups, wb, emptyDereference),
                 LAMBDA e : Failure(e.error, heap))

\* the outcome of a helper operation: the heap, the helper's state, and how often
\* performReplaceChildren was called
Outcome(ok, error, heap, state, replaceCalls) ==
  [ok |-> ok, error |-> error, heap |-> heap, state |-> state,
   replaceCalls |-> replaceCalls]

\* computeLinkedGroupUpdates(document): pending groups become computed updates
computeLinkedGroupUpdates(heap, wb, state, emptyDereference) ==
  IF state.tag = "ChangedLinkedGroups"
    THEN and_then(
           or_else(computeLinkedGroupUpdatesOf(heap, wb, state.changedLinkedGroups,
                                               emptyDereference),
                   LAMBDA e : Outcome(FALSE, e.error, heap, state, 0)),
           LAMBDA r : Outcome(TRUE, "", r.heap, LinkedGroupUpdates(r.value), 0))
    ELSE Outcome(TRUE, "", heap, state, 0)

\* faulty variant: the pairs performReplaceChildren returns are dropped, the helper keeps
\* the pairs it passed
doApplyOrUndoKeepingUpdates(heap, state) ==
  IF state.tag = "LinkedGroupUpdates"
    THEN and_then(performReplaceChildren(heap, state.linkedGroupUpdates),
                  LAMBDA r : Outcome(TRUE, "", r.heap, state, 1))
    ELSE Outcome(TRUE, "", heap, state, 0)

\* faulty variant: on pending groups performReplaceChildren is called with no pairs
\* and the helper holds the pairs it returns
doApplyOrUndoOfPending(heap, state) ==
  IF state.tag = "LinkedGroupUpdates"
    THEN and_then(performReplaceChildren(heap, state.linkedGroupUpdates),
                  LAMBDA r : Outcome(TRUE, "", r.heap, LinkedGroupUpdates(r.value), 1))
    ELSE and_then(performReplaceChildren(heap, <<>>),
                  LAMBDA r : Outcome(TRUE, "", r.heap, LinkedGroupUpdates(r.value), 1))

\* doApplyOrUndoLinkedGroupUpdates: nothing on pending groups, else the swap
doApplyOrUndoLinkedGroupUpdates(heap, state) ==
  IF state.tag = "LinkedGroupUpdates"
    THEN and_then(performReplaceChildren(heap, state.linkedGroupUpdates),
                  LAMBDA r : Outcome(TRUE, "", r.heap, LinkedGroupUpdates(r.value), 1))
    ELSE Outcome(TRUE, "", heap, state, 0)

\* faulty variant: a helper that holds its updates does not install them again
applyLinkedGroupUpdatesOnce(heap, wb, state, emptyDereference) ==
  IF state.tag = "LinkedGroupUpdates" THEN Outcome(TRUE, "", heap, state, 0)
  ELSE and_then(computeLinkedGroupUpdates(heap, wb, state, emptyDereference),
                LAMBDA c : doApplyOrUndoLinkedGroupUpdates(c.heap, c.state))

applyLinkedGroupUpdates(heap, wb, state, emptyDereference) ==
  and_then(computeLinkedGroupUpdates(heap, wb, state, emptyDereference),
           LAMBDA c : doApplyOrUndoLinkedGroupUpdates(c.heap, c.state))

undoLinkedGroupUpdates(heap, state) == doApplyOrUndoLinkedGroupUpdates(heap, state)

updatesNode(updates, node) == \E i \in DOMAIN updates : updates[i].node = node

\* the children the updates hold for node
childrenFor(updates, node) ==
  updates[CHOOSE i \in DOMAIN updates : updates[i].node = node].children

\* faulty variant: for a node both helpers update, the other helper's (later) old children
\* replace this helper's
collateWithKeepingTheirs(my, their) ==
  LET RECURSIVE collate(_, _, _)
      collate(myUpdates, theirUpdates, i) ==
        IF i > Len(theirUpdates)
          THEN [my |-> LinkedGroupUpdates(myUpdates),
                their |-> LinkedGroupUpdates(theirUpdates)]
        ELSE IF updatesNode(myUpdates, theirUpdates[i].node)
          THEN collate([k \in DOMAIN myUpdates |->
                          IF myUpdates[k].node = theirUpdates[i].node
                            THEN theirUpdates[i] ELSE myUpdates[k]],
                       [theirUpdates EXCEPT ![i].children = <<>>], i + 1)
        ELSE collate(Append(myUpdates, theirUpdates[i]),
                     [theirUpdates EXCEPT ![i].children = <<>>], i + 1)
  IN  collate(my.linkedGroupUpdates, their.linkedGroupUpdates, 1)

\* collateWith: the loop over the pairs of the other helper, in order. A pair
\* whose node this helper holds no pair for so far, among its own pairs and those
\* added before in the loop, is added to this helper and its children are moved
\* out of the other helper; every other pair stays as it is. No pair is erased
\* from the other helper.
collateWith(my, their) ==
  LET RECURSIVE collate(_, _, _)
      collate(myUpdates, theirUpdates, i) ==
        IF i > Len(theirUpdates)
          THEN [my |-> LinkedGroupUpdates(myUpdates),
                their |-> LinkedGroupUpdates(theirUpdates)]
        ELSE IF updatesNode(myUpdates, theirUpdates[i].node)
          THEN collate(myUpdates, theirUpdates, i + 1)
        ELSE collate(Append(myUpdates, theirUpdates[i]),
                     [theirUpdates EXCEPT ![i].children = <<>>], i + 1)
  IN  collate(my.linkedGroupUpdates, their.linkedGroupUpdates, 1)

(***************************************************************************)
(* Bounds and input sets                                                   *)
(***************************************************************************)

\* the longest list of changed groups a helper is constructed with
MaxPending == 4
\* the same, where two helpers are collated
MaxPendingCollate == 2
\* the longest target list passed to updateLinkedGroups
MaxTargets == 3
\* the longest list passed to checkLinkedGroupsToUpdate
MaxCheck == 3

HelperNames == {"A", "B"}

Singular == [a |-> 0, b |-> 0]
Flip == [a |-> -1, b |-> 0]

Bounds(h) == [min |-> -h, max |-> h]

\* the lists of at most n elements of S, none of them twice
RECURSIVE DistinctLists(_, _)
DistinctLists(S, n) ==
  IF n = 0 THEN {<<>>}
  ELSE LET shorter == DistinctLists(S, n - 1)
       IN  shorter \cup
           UNION {{Append(l, x) : x \in S \ Range(l)} :
                    l \in {m \in shorter : Len(m) = n - 1}}

\* the lists of changed groups a helper is constructed with
PendingLists(S, n) == DistinctLists(S, n) \ {<<>>}

\* all lists over S of length at most n
RECURSIVE Lists(_, _)
Lists(S, n) ==
  IF n = 0 THEN {<<>>}
  ELSE LET shorter == Lists(S, n - 1)
       IN  shorter \cup {Append(l, x) : l \in {m \in shorter : Len(m) = n - 1}, x \in S}

\* the linked groups of the live document
LiveLinkedGroups(heap) ==
  {n \in Range(collectNodes(heap, WorldId)) :
     heap[n].kind = "Group" /\ heap[n].linkedGroupId # NoLinkedGroupId}

Groups(heap) == {n \in DOMAIN heap : heap[n].kind = "Group"}

SomeProperties == <<[key |-> 1, value |-> 1]>>

\* A map with four link sets: x, x2 (1); a, a2 (2), which hold d, d2 (3); y, y2 (4).
\*   world - layer -+- x  - entity
\*                  +- a  -+- d - entity
\*                  |      +- brush
\*                  +- y  - entity
\*                  +- a2 -+- d2 - entity
\*                  |      +- brush
\*                  +- x2 - entity
\*                  +- y2 - entity
NestedDocument(sourceTrans, targetTrans) ==
  << WorldNode(<<2>>),
     LayerNode(1, <<3, 5, 9, 11, 15, 17>>),
     GroupNode(2, <<4>>, "x", Identity, 1),
     EntityNode(3, <<>>, 0, SomeProperties, <<>>, NoLinkId),
     GroupNode(2, <<6, 8>>, "a", sourceTrans, 2),
     GroupNode(5, <<7>>, "d", Identity, 3),
     EntityNode(6, <<>>, 40, SomeProperties, <<>>, NoLinkId),
     BrushNode(5, 0),
     GroupNode(2, <<10>>, "y", Identity, 4),
     EntityNode(9, <<>>, 0, SomeProperties, <<>>, NoLinkId),
     GroupNode(2, <<12, 14>>, "a2", targetTrans, 2),
     GroupNode(11, <<13>>, "d2", Translation(16), 3),
     EntityNode(12, <<>>, 24, SomeProperties, <<>>, NoLinkId),
     BrushNode(11, 0),
     GroupNode(2, <<16>>, "x2", Translation(16), 1),
     EntityNode(15, <<>>, 16, SomeProperties, <<>>, NoLinkId),
     GroupNode(2, <<18>>, "y2", Identity, 4),
     EntityNode(17, <<>>, 0, SomeProperties, <<>>, NoLinkId) >>

\* A map with one link set of three members, each holding a nested linked group.
\*   world - layer -+- a  - d  - entity
\*                  +- a2 - d2 - entity
\*                  +- a3 - d3 - entity
TripleDocument(sourceTrans) ==
  << WorldNode(<<2>>),
     LayerNode(1, <<3, 6, 9>>),
     GroupNode(2, <<4>>, "a", sourceTrans, 2),
     GroupNode(3, <<5>>, "d", Identity, 3),
     EntityNode(4, <<>>, 8, SomeProperties, <<>>, NoLinkId),
     GroupNode(2, <<7>>, "a2", Translation(16), 2),
     GroupNode(6, <<8>>, "d2", Identity, 3),
     EntityNode(7, <<>>, 16, SomeProperties, <<>>, NoLinkId),
     GroupNode(2, <<10>>, "a3", Translation(-16), 2),
     GroupNode(9, <<11>>, "d3", Translation(8), 3),
     EntityNode(10, <<>>, 0, SomeProperties, <<>>, NoLinkId) >>

\* A map with one link set s, t1, t2, each holding an entity, an unlinked group
\* with a brush, and a patch.
LinkSetDocument(sourceTrans, targetTrans, entityOrigin) ==
  << WorldNode(<<2>>),
     LayerNode(1, <<3, 8, 13>>),
     GroupNode(2, <<4, 5, 7>>, "s", sourceTrans, 1),
     EntityNode(3, <<>>, entityOrigin, SomeProperties, <<>>, NoLinkId),
     GroupNode(3, <<6>>, "n", Translation(8), NoLinkedGroupId),
     BrushNode(5, 0),
     PatchNode(3, 8),
     GroupNode(2, <<9, 10, 12>>, "t1", targetTrans, 1),
     EntityNode(8, <<>>, 0, SomeProperties, <<>>, NoLinkId),
     GroupNode(8, <<11>>, "n1", Identity, NoLinkedGroupId),
     BrushNode(10, 0),
     PatchNode(8, 0),
     GroupNode(2, <<14, 15, 17>>, "t2", Translation(-16), 1),
     EntityNode(13, <<>>, 0, SomeProperties, <<>>, NoLinkId),
     GroupNode(13, <<16>>, "n2", Identity, NoLinkedGroupId),
     BrushNode(15, 0),
     PatchNode(13, 0) >>

NoHistory ==
  [applied |-> FALSE, heap |-> <<>>, installed |-> FALSE, collated |-> FALSE,
   updated |-> <<>>]

InitWith(heap, wb) ==
  /\ nodes = heap
  /\ worldBounds = wb
  /\ helpers = [h \in HelperNames |-> NoHelper]
  /\ result = [op |-> "init"]
  /\ pre = [nodes |-> heap, helpers |-> [h \in HelperNames |-> NoHelper]]
  /\ hist = [h \in HelperNames |-> NoHistory]

(***************************************************************************)
(* Operations of a helper                                                  *)
(***************************************************************************)

Construct(h, changedLinkedGroups) ==
  /\ helpers[h].tag = "none"
  /\ \E state \in UpdateLinkedGroupsHelper(nodes, changedLinkedGroups) :
       helpers' = [helpers EXCEPT ![h] = state]
  /\ result' = [op |-> "construct", helper |-> h, changed |-> changedLinkedGroups]
  /\ pre' = [nodes |-> nodes, helpers |-> helpers]
  /\ UNCHANGED <<nodes, worldBounds, hist>>

\* the history of helper h after an operation with outcome r
Swapped(h, r) ==
  IF helpers[h].tag = "ChangedLinkedGroups" /\ r.ok /\ r.state.tag = "LinkedGroupUpdates"
    THEN [applied |-> TRUE, heap |-> nodes, installed |-> TRUE, collated |-> FALSE,
          updated |-> r.heap]
  ELSE IF r.replaceCalls = 1
    THEN [hist[h] EXCEPT !.installed = ~hist[h].installed]
  ELSE hist[h]

\* the variables after operation op of helper h had outcome r
Done(op, h, r) ==
  /\ nodes' = r.heap
  /\ helpers' = [helpers EXCEPT ![h] = r.state]
  /\ result' = [op |-> op, helper |-> h, ok |-> r.ok, error |-> r.error,
                replaceCalls |-> r.replaceCalls]
  /\ hist' = [hist EXCEPT ![h] = Swapped(h, r)]
  /\ pre' = [nodes |-> nodes, helpers |-> helpers]
  /\ UNCHANGED worldBounds

Apply(h) ==
  /\ helpers[h].tag # "none"
  /\ ~hist[h].collated
  /\ \E emptyDereference \in EmptyDereferencesOf(nodes, helpers[h].changedLinkedGroups) :
       Done("apply", h,
            applyLinkedGroupUpdates(nodes, worldBounds, helpers[h], emptyDereference))

Undo(h) ==
  /\ helpers[h].tag # "none"
  /\ ~hist[h].collated
  /\ Done("undo", h, undoLinkedGroupUpdates(nodes, helpers[h]))

\* my.collateWith(their): both have applied their updates, their after my
Collate(my, their) ==
  /\ my # their
  /\ helpers[my].tag = "LinkedGroupUpdates" /\ helpers[their].tag = "LinkedGroupUpdates"
  /\ hist[my].installed /\ hist[their].installed
  /\ ~hist[my].collated /\ ~hist[their].collated
  /\ helpers' = [helpers EXCEPT ![my] = collateWith(helpers[my], helpers[their]).my,
                                 ![their] = collateWith(helpers[my], helpers[their]).their]
  /\ result' = [op |-> "collate", helper |-> my, other |-> their]
  /\ hist' = [hist EXCEPT ![their].collated = TRUE]
  /\ pre' = [nodes |-> nodes, helpers |-> helpers]
  /\ UNCHANGED <<nodes, worldBounds>>

(***************************************************************************)
(* Spec: one helper on the nested document                                 *)
(***************************************************************************)

Init ==
  \E sourceTrans \in {Identity, Translation(16), Singular},
     targetTrans \in {Identity, Translation(32), Singular} :
    InitWith(NestedDocument(sourceTrans, targetTrans), Bounds(64))

\* the groups a helper is constructed with: x, a, d, y and a2
ChangedGroups == {3, 5, 6, 9, 11}

ConstructA ==
  \E changed \in PendingLists(ChangedGroups \cap LiveLinkedGroups(nodes), MaxPending) :
    Construct("A", changed)

ApplyA == Apply("A")

UndoA == Undo("A")

Next == ConstructA \/ ApplyA \/ UndoA

Spec == Init /\ [][Next]_vars

(***************************************************************************)
(* SpecCollate: two helpers, the second one applied after the first, then  *)
(* collated into the first or undone before it (the order of a command     *)
(* stack)                                                                  *)
(***************************************************************************)

InitCollate ==
  \E sourceTrans \in {Identity, Translation(16)} :
    InitWith(TripleDocument(sourceTrans), Bounds(64))

\* the groups a helper is constructed with: a, d and a2
ChangedGroupsCollate == {3, 4, 6}

ConstructFirst ==
  \E changed \in PendingLists(ChangedGroupsCollate \cap LiveLinkedGroups(nodes),
                               MaxPendingCollate) :
    Construct("A", changed)

ApplyFirst == ~hist["B"].installed /\ Apply("A")

UndoFirst == ~hist["B"].installed /\ hist["A"].installed /\ Undo("A")

ConstructSecond ==
  /\ hist["A"].installed
  /\ \E changed \in PendingLists(ChangedGroupsCollate \cap LiveLinkedGroups(nodes),
                                  MaxPendingCollate) :
       Construct("B", changed)

ApplySecond == hist["A"].installed /\ ~hist["B"].installed /\ Apply("B")

UndoSecond == hist["B"].installed /\ Undo("B")

CollateFirstWithSecond == Collate("A", "B")

UndoCollated == hist["B"].collated /\ Undo("A")

NextCollate ==
  \/ ConstructFirst \/ ApplyFirst \/ UndoFirst
  \/ ConstructSecond \/ ApplySecond \/ UndoSecond
  \/ CollateFirstWithSecond \/ UndoCollated

SpecCollate == InitCollate /\ [][NextCollate]_vars

(***************************************************************************)
(* SpecCalls: single calls of the free functions                           *)
(***************************************************************************)

InitCalls ==
  \E sourceTrans \in {[a |-> a, b |-> b] : a \in {-1, 0, 1}, b \in {0, 16}},
     targetTrans \in {[a |-> a, b |-> b] : a \in {-1, 0, 1}, b \in {0, 16}},
     entityOrigin \in {0, 48},
     wb \in {Bounds(64), Bounds(72)} :
    InitWith(LinkSetDocument(sourceTrans, targetTrans, entityOrigin), wb)

\* the variables after updateLinkedGroups(source, targets, worldBounds) returned r
Returned(source, targets, r) ==
  /\ nodes' = r.heap
  /\ result' = [op |-> "updateLinkedGroups", source |-> source, targets |-> targets,
                ok |-> r.ok, error |-> r.error, pairs |-> r.value]

CallUpdateLinkedGroups ==
  /\ result.op = "init"
  /\ \E source \in LiveLinkedGroups(nodes),
        targets \in Lists(LiveLinkedGroups(nodes), MaxTargets) :
       Returned(source, targets, updateLinkedGroups(nodes, source, targets, worldBounds))
  /\ pre' = [nodes |-> nodes, helpers |-> helpers]
  /\ UNCHANGED <<worldBounds, helpers, hist>>

CallCheckLinkedGroupsToUpdate ==
  /\ result.op = "init"
  /\ \E list \in Lists(Groups(nodes), MaxCheck) :
       result' = [op |-> "checkLinkedGroupsToUpdate", list |-> list,
                  value |-> checkLinkedGroupsToUpdate(nodes, list)]
  /\ pre' = [nodes |-> nodes, helpers |-> helpers]
  /\ UNCHANGED <<nodes, worldBounds, helpers, hist>>

NextCalls == CallUpdateLinkedGroups \/ CallCheckLinkedGroupsToUpdate

SpecCalls == InitCalls /\ [][NextCalls]_vars

(***************************************************************************)
(* SpecPreserve: single calls of updateLinkedGroups on a link set whose    *)
(* members differ in shape, names, properties and protected properties     *)
(***************************************************************************)

\* the longest target list passed to updateLinkedGroups here
MaxPreserveTargets == 2

\* entity properties: keys 1 and 2, values 1 ("some_value") and 2 ("other_value")
Property(key, value) == [key |-> key, value |-> value]

AllKeys == {1, 2}

SourcePropertyLists ==
  {<<>>, <<Property(1, 1)>>, <<Property(1, 2), Property(2, 1)>>, <<Property(2, 2)>>}

TargetPropertyLists ==
  {<<>>, <<Property(1, 1)>>, <<Property(2, 1), Property(1, 1)>>}

ProtectedLists == {<<>>, <<1>>, <<2, 1>>}

\* the children of the target group, by the way the target differs from the source
Shapes == {"same", "swapped", "short", "long", "deep"}

ShapeChildren(shape) ==
  CASE shape = "swapped" -> <<9, 8>>
    [] shape = "short" -> <<8>>
    [] shape = "long" -> <<8, 9, 11>>
    [] OTHER -> <<8, 9>>

\* the parent of a child of the target group: none if the shape leaves it out
ShapeParent(shape, n) == IF n \in Range(ShapeChildren(shape)) THEN 7 ELSE NoNode

\* A map with the link set s, t, each holding an entity and a linked group around
\* an entity and an unlinked group; t differs from s as the shape says.
\*   world - layer -+- s -+- entity
\*                  |     +- inner -+- entity
\*                  |               +- h
\*                  +- t -+- entity
\*                        +- kept -+- entity (a brush in shape "deep")
\*                        |        +- h_kept
\*                        +- patch (in shape "long")
PreserveDocument(shape, sTrans, tTrans, srcProps, trgtProps, srcProt, trgtProt) ==
  << WorldNode(<<2>>),
     LayerNode(1, <<3, 7>>),
     GroupNode(2, <<4, 5>>, "s", sTrans, 1),
     EntityNode(3, <<>>, 8, srcProps, srcProt, NoLinkId),
     GroupNode(3, <<6, 12>>, "inner", Translation(8), 2),
     EntityNode(5, <<>>, 0, <<Property(1, 1)>>, <<>>, NoLinkId),
     GroupNode(2, ShapeChildren(shape), "t", tTrans, 1),
     EntityNode(ShapeParent(shape, 8), <<>>, 0, trgtProps, trgtProt, NoLinkId),
     GroupNode(ShapeParent(shape, 9), <<10, 13>>, "kept", Translation(-8), 2),
     IF shape = "deep"
       THEN BrushNode(9, 0)
       ELSE EntityNode(9, <<>>, 0, <<Property(1, 2), Property(2, 2)>>, <<1>>, NoLinkId),
     PatchNode(ShapeParent(shape, 11), 0),
     GroupNode(5, <<>>, "h", Identity, NoLinkedGroupId),
     GroupNode(9, <<>>, "h_kept", Identity, NoLinkedGroupId) >>

InitPreserve ==
  \E shape \in Shapes,
     sTrans \in {Translation(16), Singular},
     tTrans \in {Identity, Flip},
     srcProps \in SourcePropertyLists,
     trgtProps \in TargetPropertyLists,
     srcProt \in ProtectedLists,
     trgtProt \in ProtectedLists :
    InitWith(PreserveDocument(shape, sTrans, tTrans, srcProps, trgtProps,
                              srcProt, trgtProt),
             Bounds(64))

CallUpdateLinkedGroupsOfMembers ==
  /\ result.op = "init"
  /\ \E source \in LiveLinkedGroups(nodes),
        targets \in Lists(LiveLinkedGroups(nodes), MaxPreserveTargets) :
       Returned(source, targets, updateLinkedGroups(nodes, source, targets, worldBounds))
  /\ pre' = [nodes |-> nodes, helpers |-> helpers]
  /\ UNCHANGED <<worldBounds, helpers, hist>>

NextPreserve == CallUpdateLinkedGroupsOfMembers

SpecPreserve == InitPreserve /\ [][NextPreserve]_vars

(***************************************************************************)
(* SpecLinkIds: single calls of setLinkIds, resetLinkIds and               *)
(* generateEntityLinkIds on link sets whose members differ in structure    *)
(***************************************************************************)

\* the longest list of groups passed to a link id function
MaxLinkGroups == 3

\* the ways in which the second member of the link set differs from the first
LinkShapes ==
  {"same", "none", "fewer", "extra", "reordered", "entityFewer",
   "innerFewer", "innerReordered", "innerEntityForBrush"}

\* the children of the second member, of its entity and of its inner group
OuterChildren(shape) ==
  CASE shape = "none" -> <<>>
    [] shape = "fewer" -> <<11, 13>>
    [] shape = "extra" -> <<11, 13, 14, 27>>
    [] shape = "reordered" -> <<11, 14, 13>>
    [] OTHER -> <<11, 13, 14>>

EntityChildren(shape) == IF shape = "entityFewer" THEN <<>> ELSE <<12>>

InnerChildren(shape) ==
  CASE shape = "innerFewer" -> <<15>>
    [] shape = "innerReordered" -> <<16, 15>>
    [] OTHER -> <<15, 16>>

\* the parent of node n, which is p if the shape has n among the children
ParentIn(children, n, p) == IF n \in Range(children) THEN p ELSE NoNode

\* Three members 3, 10, 17 of link set 1, as in the test of setLinkIds: an entity
\* with a brush, a brush, and an inner group around a brush and an entity; the
\* inner groups are unlinked or members of link set 2, which has the member 24
\* outside of them.
\*   world - layer -+- 3 outer -+- entity 4 - brush 5
\*                  |           +- brush 6
\*                  |           +- 7 inner -+- brush 8
\*                  |                       +- entity 9
\*                  +- 10 outer (as the shape says: 11 .. 16, 27)
\*                  +- 17 outer (as 3: 18 .. 23)
\*                  +- 24 inner -+- brush 25
\*                               +- entity 26
LinkIdDocument(shape, nested, nestedOfSecond) ==
  << WorldNode(<<2>>),
     LayerNode(1, <<3, 10, 17, 24>>),
     GroupNode(2, <<4, 6, 7>>, "outer", Identity, 1),
     EntityNode(3, <<5>>, 0, <<>>, <<>>, NoLinkId),
     BrushNode(4, 0),
     BrushNode(3, 0),
     GroupNode(3, <<8, 9>>, "inner", Identity, nested),
     BrushNode(7, 0),
     EntityNode(7, <<>>, 0, <<>>, <<>>, NoLinkId),
     GroupNode(2, OuterChildren(shape), "outer", Identity, 1),
     EntityNode(ParentIn(OuterChildren(shape), 11, 10), EntityChildren(shape), 0,
                <<>>, <<>>, NoLinkId),
     BrushNode(ParentIn(EntityChildren(shape), 12, 11), 0),
     BrushNode(ParentIn(OuterChildren(shape), 13, 10), 0),
     GroupNode(ParentIn(OuterChildren(shape), 14, 10), InnerChildren(shape), "inner",
               Identity, nestedOfSecond),
     IF shape = "innerEntityForBrush"
       THEN EntityNode(14, <<>>, 0, <<>>, <<>>, NoLinkId)
       ELSE BrushNode(14, 0),
     EntityNode(ParentIn(InnerChildren(shape), 16, 14), <<>>, 0, <<>>, <<>>, NoLinkId),
     GroupNode(2, <<18, 20, 21>>, "outer", Identity, 1),
     EntityNode(17, <<19>>, 0, <<>>, <<>>, NoLinkId),
     BrushNode(18, 0),
     BrushNode(17, 0),
     GroupNode(17, <<22, 23>>, "inner", Identity, nested),
     BrushNode(21, 0),
     EntityNode(21, <<>>, 0, <<>>, <<>>, NoLinkId),
     GroupNode(2, <<25, 26>>, "inner", Identity, 2),
     BrushNode(24, 0),
     EntityNode(24, <<>>, 0, <<>>, <<>>, NoLinkId),
     PatchNode(ParentIn(OuterChildren(shape), 27, 10), 0) >>

\* the link ids given before the call: none, those of link set 2 by a setLinkIds
\* on its members, those of the members 3 and 17 of link set 1, or both
PriorLinkIds == {"none", "nested", "outer", "both"}

WithNestedLinkIds(heap, prior) ==
  IF prior \in {"nested", "both"}
    THEN setLinkIds(heap, findLinkedGroups(heap, WorldId, 2),
                    Reads(UnmatchedLinkedGroupId)).heap
    ELSE heap

WithLinkIds(heap, prior) ==
  IF prior \in {"outer", "both"}
    THEN setLinkIds(WithNestedLinkIds(heap, prior), <<3, 17>>,
                    Reads(UnmatchedLinkedGroupId)).heap
    ELSE WithNestedLinkIds(heap, prior)

InitLinkIds ==
  \E shape \in LinkShapes,
     nested \in {NoLinkedGroupId, 2},
     nestedOfSecond \in {NoLinkedGroupId, 2},
     prior \in PriorLinkIds :
    InitWith(WithLinkIds(LinkIdDocument(shape, nested, nestedOfSecond), prior),
             Bounds(64))

\* the lists of distinct members of one link set
LinkGroupLists(heap) ==
  {l \in DistinctLists(LiveLinkedGroups(heap), MaxLinkGroups) :
     \A i \in DOMAIN l : heap[l[i]].linkedGroupId = heap[l[1]].linkedGroupId}

ReturnedLinkIds(op, groups, r) ==
  /\ nodes' = r.heap
  /\ result' = [op |-> op, groups |-> groups, ok |-> r.ok, error |-> r.error,
                map |-> r.value]
  /\ pre' = [nodes |-> nodes, helpers |-> helpers]
  /\ UNCHANGED <<worldBounds, helpers, hist>>

CallSetLinkIds ==
  /\ result.op = "init"
  /\ \E groups \in LinkGroupLists(nodes) :
       \E emptyDereference \in EmptyDereferencesOf(nodes, groups) :
         ReturnedLinkIds("setLinkIds", groups,
                         setLinkIds(nodes, groups, emptyDereference))

CallResetLinkIds ==
  /\ result.op = "init"
  /\ \E groups \in LinkGroupLists(nodes) :
       ReturnedLinkIds("resetLinkIds", groups, Success(resetLinkIds(nodes, groups), <<>>))

CallGenerateEntityLinkIds ==
  /\ result.op = "init"
  /\ \E groups \in LinkGroupLists(nodes) :
       ReturnedLinkIds("generateEntityLinkIds", groups,
                       generateEntityLinkIds(nodes, groups))

NextLinkIds == CallSetLinkIds \/ CallResetLinkIds \/ CallGenerateEntityLinkIds

SpecLinkIds == InitLinkIds /\ [][NextLinkIds]_vars

(***************************************************************************)
(* SpecTasks: cloneAndTransformChildren with the tasks of its parallel     *)
(* transform started and completed one at a time, in any order             *)
(***************************************************************************)

InitTasks ==
  \E sourceTrans \in {Identity, Translation(16)},
     entityOrigin \in {0, 48},
     wb \in {Bounds(64), Bounds(72)} :
    InitWith(LinkSetDocument(sourceTrans, Identity, entityOrigin), wb)

\* the transformations passed to cloneAndTransformChildren
TaskTransformations == {Identity, Translation(16), Flip, Singular}

\* the call collects the nodes to clone; no task has started
CallCloneAndTransformChildren ==
  /\ result.op = "init"
  /\ \E node \in Groups(nodes), transformation \in TaskTransformations :
       result' = [op |-> "vec_parallel_transform", node |-> node,
                  transformation |-> transformation,
                  nodesToClone |-> collectNodesToCloneAndTransform(nodes, node),
                  running |-> {}, transformResults |-> <<>>, completed |-> <<>>]
  /\ pre' = [nodes |-> nodes, helpers |-> helpers]
  /\ UNCHANGED <<nodes, worldBounds, helpers, hist>>

\* a worker takes up the task of a node
StartTask ==
  /\ result.op = "vec_parallel_transform"
  /\ \E n \in Range(result.nodesToClone) \ (result.running \cup DOMAIN result.transformResults) :
       result' = [result EXCEPT !.running = @ \cup {n}]
  /\ UNCHANGED <<nodes, worldBounds, helpers, pre, hist>>

\* a running task completes and writes its result
CompleteTask ==
  /\ result.op = "vec_parallel_transform"
  /\ \E n \in result.running :
       result' = [result EXCEPT
                    !.running = @ \ {n},
                    !.transformResults =
                      completeTask(@, nodes, n, worldBounds, result.transformation),
                    !.completed = Append(@, n)]
  /\ UNCHANGED <<nodes, worldBounds, helpers, pre, hist>>

\* all tasks have completed: the results are folded and the clones assembled
JoinTasks ==
  /\ result.op = "vec_parallel_transform"
  /\ DOMAIN result.transformResults = Range(result.nodesToClone)
  /\ LET r == cloneTransformed(nodes, result.node, worldBounds, result.transformResults)
     IN  /\ nodes' = r.heap
         /\ result' = [op |-> "cloneAndTransformChildren", node |-> result.node,
                       transformation |-> result.transformation,
                       completed |-> result.completed,
                       ok |-> r.ok, error |-> r.error, value |-> r.value]
  /\ UNCHANGED <<worldBounds, helpers, pre, hist>>

NextTasks == CallCloneAndTransformChildren \/ StartTask \/ CompleteTask \/ JoinTasks

SpecTasks == InitTasks /\ [][NextTasks]_vars


(***************************************************************************)
(* SpecAdd: trees built from detached nodes by additions that canAddChild  *)
(* allows, and the clone-and-transform engine on their groups              *)
(***************************************************************************)

\* the linked group ids of the three groups
PoolLinkedGroupIds == {NoLinkedGroupId, 1, 2}

\* a world, a layer and three groups, none of them added yet, and an entity that
\* was added to the third group
PoolDocument(ids) ==
  << WorldNode(<<>>),
     LayerNode(NoNode, <<>>),
     GroupNode(NoNode, <<>>, "g1", Identity, ids[1]),
     GroupNode(NoNode, <<>>, "g2", Identity, ids[2]),
     GroupNode(NoNode, <<6>>, "g3", Translation(8), ids[3]),
     EntityNode(5, <<>>, 0, SomeProperties, <<>>, NoLinkId) >>

\* the linked group ids of the three groups at the start; the ids are compared
\* for equality only, so the first linked group is taken to have the id 1
PoolAssignments ==
  {ids \in [1..3 -> PoolLinkedGroupIds] :
     \A i \in 1..3 : ids[i] = 2 => \E j \in 1..(i - 1) : ids[j] = 1}

InitAdd ==
  \E ids \in PoolAssignments : InitWith(PoolDocument(ids), Bounds(64))

\* the nodes that have no parent
Detached(heap) == {n \in DOMAIN heap : heap[n].parent = NoNode}

\* the number of calls of setGroup
MaxSetGroups == 1

\* the calls of setGroup made so far, and whether one of them changed the linked
\* group id of a group that had a parent or children
SetGroupsDone == IF result.op = "init" THEN 0 ELSE result.setGroups

Relinked == result.op # "init" /\ result.relinked

\* the groups given to setGroup: the group of the node with another linked group
\* id, or with another name and transformation
GroupsToSet(heap, node) ==
  {Group(heap[node].name, heap[node].trans, linkedGroupId) :
     linkedGroupId \in PoolLinkedGroupIds \ {heap[node].linkedGroupId}}
    \cup {Group("renamed", Translation(16), heap[node].linkedGroupId)}

\* if (groupNode.canAddChild(child)) groupNode.addChild(child)
AddChildToGroup ==
  /\ \E this \in Groups(nodes), child \in Detached(nodes) :
       /\ nodes' = IF canAddChild(nodes, this, child)
                     THEN addChild(nodes, this, child) ELSE nodes
       /\ result' = [op |-> "addChild", this |-> this, child |-> child,
                     added |-> canAddChild(nodes, this, child),
                     setGroups |-> SetGroupsDone, relinked |-> Relinked]
  /\ pre' = [nodes |-> nodes, helpers |-> helpers]
  /\ UNCHANGED <<worldBounds, helpers, hist>>

\* the same for a layer node
AddChildToLayer ==
  /\ \E this \in {n \in DOMAIN nodes : nodes[n].kind = "Layer"},
        child \in Detached(nodes) :
       /\ nodes' = IF canAddChildToLayer(nodes, this, child)
                     THEN addChild(nodes, this, child) ELSE nodes
       /\ result' = [op |-> "addChild", this |-> this, child |-> child,
                     added |-> canAddChildToLayer(nodes, this, child),
                     setGroups |-> SetGroupsDone, relinked |-> Relinked]
  /\ pre' = [nodes |-> nodes, helpers |-> helpers]
  /\ UNCHANGED <<worldBounds, helpers, hist>>

\* worldNode.addChild(layerNode)
AddLayerToWorld ==
  /\ \E child \in {n \in Detached(nodes) : nodes[n].kind = "Layer"} :
       /\ nodes' = addChild(nodes, WorldId, child)
       /\ result' = [op |-> "addChild", this |-> WorldId, child |-> child,
                     added |-> TRUE,
                     setGroups |-> SetGroupsDone, relinked |-> Relinked]
  /\ pre' = [nodes |-> nodes, helpers |-> helpers]
  /\ UNCHANGED <<worldBounds, helpers, hist>>

\* cloneAndTransformChildren on a group; the caller drops the clones
CallCloneAndTransformChildrenOfGroup ==
  /\ \E node \in Groups(nodes) :
       LET r == cloneAndTransformChildren(nodes, node, worldBounds, Translation(16))
       IN  result' = [op |-> "cloneAndTransformChildren", node |-> node,
                      ok |-> r.ok, error |-> r.error, clones |-> Len(r.value),
                     setGroups |-> SetGroupsDone, relinked |-> Relinked]
  /\ pre' = [nodes |-> nodes, helpers |-> helpers]
  /\ UNCHANGED <<nodes, worldBounds, helpers, hist>>

\* groupNode.setGroup(group)
SetGroup ==
  /\ SetGroupsDone < MaxSetGroups
  /\ \E node \in Groups(nodes) :
       \E group \in GroupsToSet(nodes, node) :
         /\ nodes' = setGroup(nodes, node, group)
         /\ result' = [op |-> "setGroup", node |-> node, group |-> group,
                       setGroups |-> SetGroupsDone + 1,
                       relinked |->
                         \/ Relinked
                         \/ /\ group.linkedGroupId # nodes[node].linkedGroupId
                            /\ \/ nodes[node].parent # NoNode
                               \/ nodes[node].children # <<>>]
  /\ pre' = [nodes |-> nodes, helpers |-> helpers]
  /\ UNCHANGED <<worldBounds, helpers, hist>>

NextAdd ==
  \/ AddChildToGroup \/ AddChildToLayer \/ AddLayerToWorld
  \/ CallCloneAndTransformChildrenOfGroup \/ SetGroup

SpecAdd == InitAdd /\ [][NextAdd]_vars

(***************************************************************************)
(* SpecEdit: groups opened and closed                                      *)
(***************************************************************************)

\* The groups of the test, in a document, with a second group beside "group".
\*   world - layer - grandparent -+- parent -+- group - child - entity
\*                                |          +- sibling - brush
\*                                +- entity
EditDocument(linkedGroupId) ==
  [n \in 1..10 |->
     WithEditState(
       << WorldNode(<<2>>),
          LayerNode(1, <<3>>),
          GroupNode(2, <<4, 10>>, "grandparent", Identity, NoLinkedGroupId),
          GroupNode(3, <<5, 8>>, "parent", Identity, NoLinkedGroupId),
          GroupNode(4, <<6>>, "group", Identity, linkedGroupId),
          GroupNode(5, <<7>>, "child", Identity, NoLinkedGroupId),
          EntityNode(6, <<>>, 0, SomeProperties, <<>>, NoLinkId),
          GroupNode(4, <<9>>, "sibling", Identity, linkedGroupId),
          BrushNode(8, 0),
          EntityNode(3, <<>>, 0, SomeProperties, <<>>, NoLinkId) >>[n])]

InitEdit ==
  \E linkedGroupId \in {NoLinkedGroupId, 1} :
    InitWith(EditDocument(linkedGroupId), Bounds(64))

\* the variables after groupNode.open() or groupNode.close()
Edited(op, g, heap) ==
  /\ nodes' = heap
  /\ result' = [op |-> op, group |-> g]
  /\ pre' = [nodes |-> nodes, helpers |-> helpers]
  /\ UNCHANGED <<worldBounds, helpers, hist>>

OpenGroup ==
  \E g \in Groups(nodes) : closed(nodes, g) /\ Edited("open", g, open(nodes, g))

CloseGroup ==
  \E g \in Groups(nodes) : opened(nodes, g) /\ Edited("close", g, close(nodes, g))

NextEdit == OpenGroup \/ CloseGroup

SpecEdit == InitEdit /\ [][NextEdit]_vars

(***************************************************************************)
(* SpecSync: one helper on the nested document after an edit of the nested *)
(* linked group d2, whose link set is not in step yet                      *)
(***************************************************************************)

\* the nested document with a brush added to d2
EditedNestedDocument(sourceTrans, targetTrans) ==
  [Append(NestedDocument(sourceTrans, targetTrans), BrushNode(12, 0))
     EXCEPT ![12].children = <<13, 19>>]

InitSync ==
  \E sourceTrans \in {Identity, Translation(16)},
     targetTrans \in {Identity, Translation(32)} :
    InitWith(EditedNestedDocument(sourceTrans, targetTrans), Bounds(64))

SpecSync == InitSync /\ [][Next]_vars

(***************************************************************************)
(* SpecUpdates: after setLinkIds on a link set, its members and the members *)
(* of a nested link set are updated one after the other, each update by a   *)
(* helper of its own                                                        *)
(***************************************************************************)

\* the number of updates in a row
MaxUpdates == 2

\* the link ids given before the updates: those of link set 1 by a setLinkIds on
\* its members s and t, after those of link set 2 where its members are isomorphic
LinkedPreserveDocument(heap, shape, nestedLinkIds) ==
  setLinkIds(
    IF nestedLinkIds /\ shape = "same"
      THEN setLinkIds(heap, findLinkedGroups(heap, WorldId, 2),
                      Reads(UnmatchedLinkedGroupId)).heap
      ELSE heap,
    findLinkedGroups(heap, WorldId, 1), Reads(UnmatchedLinkedGroupId)).heap

InitUpdates ==
  \E shape \in {"same", "deep"},
     tTrans \in {Identity, Flip},
     srcProps \in SourcePropertyLists,
     trgtProps \in TargetPropertyLists,
     srcProt \in ProtectedLists,
     trgtProt \in ProtectedLists,
     nestedLinkIds \in BOOLEAN :
    InitWith(LinkedPreserveDocument(
               PreserveDocument(shape, Translation(16), tTrans, srcProps, trgtProps,
                                srcProt, trgtProt),
               shape, nestedLinkIds),
             Bounds(64))

\* the sources of the updates made so far
UpdatedSources == IF result.op = "init" THEN <<>> ELSE result.sources

\* UpdateLinkedGroupsHelper{{source}}.applyLinkedGroupUpdates(document)
UpdateLinkSetOf(source) ==
  \E emptyDereference \in EmptyDereferencesOf(nodes, <<source>>) :
    LET r == applyLinkedGroupUpdates(nodes, worldBounds, ChangedLinkedGroups(<<source>>),
                                     emptyDereference)
    IN  /\ nodes' = r.heap
        /\ result' = [op |-> "update", source |-> source, ok |-> r.ok, error |-> r.error,
                      sources |-> Append(UpdatedSources, source)]

UpdateLinkSet ==
  /\ Len(UpdatedSources) < MaxUpdates
  /\ \E source \in LiveLinkedGroups(nodes) : UpdateLinkSetOf(source)
  /\ pre' = [nodes |-> nodes, helpers |-> helpers]
  /\ UNCHANGED <<worldBounds, helpers, hist>>

NextUpdates == UpdateLinkSet

SpecUpdates == InitUpdates /\ [][NextUpdates]_vars

(***************************************************************************)
(* SpecMixed: single calls of setLinkIds on linked groups of any link sets, *)
(* nested ones and repeated ones among them                                 *)
(***************************************************************************)

\* the longest list of groups passed to setLinkIds here
MaxMixedGroups == 2

CallSetLinkIdsOfLinkedGroups ==
  /\ result.op = "init"
  /\ \E groups \in Lists(LiveLinkedGroups(nodes), MaxMixedGroups) :
       \E emptyDereference \in EmptyDereferencesOf(nodes, groups) :
         ReturnedLinkIds("setLinkIds", groups,
                         setLinkIds(nodes, groups, emptyDereference))

NextMixed == CallSetLinkIdsOfLinkedGroups

SpecMixed == InitLinkIds /\ [][NextMixed]_vars

(***************************************************************************)
(* Properties                                                              *)
(***************************************************************************)

\* the nodes of the live document
Live(heap) == Range(collectNodes(heap, WorldId))

\* the live document of heap h2 is that of h1, node by node
LiveUnchanged(h1, h2) ==
  /\ collectNodes(h2, WorldId) = collectNodes(h1, WorldId)
  /\ \A n \in Live(h1) : h2[n] = h1[n]

Descendants(heap, g) == Range(collectNodesOfAll(heap, heap[g].children))

\* the live members of the link set of g other than g
OtherMembers(heap, g) ==
  {t \in Live(heap) : /\ heap[t].kind = "Group"
                      /\ heap[t].linkedGroupId = heap[g].linkedGroupId
                      /\ t # g}

\* half the extent of the bounds of a node
HalfSize(n) ==
  CASE n.kind = "Entity" -> EntityHalfSize
    [] n.kind = "Brush" -> BrushHalfSize
    [] OTHER -> 0

\* where the contents of node n of source s end up in target t
ImageIn(s, t, n) == t.trans.a * s.trans.a * (n.origin - s.trans.b) + t.trans.b

\* the four causes for which computing the updates of the pending groups fails
NonInvertibleSource(heap, pending) ==
  \E i \in DOMAIN pending : heap[pending[i]].trans.a = 0

SharedLinkedGroupId(heap, pending) ==
  \E i \in DOMAIN pending, j \in DOMAIN pending :
    i # j /\ heap[pending[i]].linkedGroupId = heap[pending[j]].linkedGroupId

BrushTransformFailure(heap, pending) ==
  \E i \in DOMAIN pending :
    /\ heap[pending[i]].trans.a # 0
    /\ \E t \in OtherMembers(heap, pending[i]), n \in Descendants(heap, pending[i]) :
         heap[n].kind = "Brush" /\ heap[t].trans.a = 0

WorldBoundsViolation(heap, wb, pending) ==
  \E i \in DOMAIN pending :
    /\ heap[pending[i]].trans.a # 0
    /\ \E t \in OtherMembers(heap, pending[i]), n \in Descendants(heap, pending[i]) :
         /\ heap[n].kind \in {"Entity", "Brush", "Patch"}
         /\ \/ ImageIn(heap[pending[i]], heap[t], heap[n]) - HalfSize(heap[n]) < wb.min
            \/ ImageIn(heap[pending[i]], heap[t], heap[n]) + HalfSize(heap[n]) > wb.max

ComputeFails(heap, wb, pending) ==
  \/ NonInvertibleSource(heap, pending)
  \/ SharedLinkedGroupId(heap, pending)
  \/ BrushTransformFailure(heap, pending)
  \/ WorldBoundsViolation(heap, wb, pending)

ComputeErrors ==
  {NotInvertible, ExceedsWorldBounds, TransformFailed, SameLinkSetMultipleMembers}

\* C1: when computing the updates fails for a pending group (a source that is not
\* invertible, a clone outside the world bounds, a brush that fails to transform,
\* two pending groups of one link set), applyLinkedGroupUpdates returns the error,
\* does not call performReplaceChildren, leaves every node of the live document
\* as it was, and leaves the helper with its pending groups.
C1_FailedApplyChangesNothing ==
  \A h \in HelperNames :
    /\ result.op = "apply" /\ result.helper = h
    /\ pre.helpers[h].tag = "ChangedLinkedGroups"
    /\ ComputeFails(pre.nodes, worldBounds, pre.helpers[h].changedLinkedGroups)
    => /\ ~result.ok
       /\ result.error \in ComputeErrors
       /\ result.replaceCalls = 0
       /\ LiveUnchanged(pre.nodes, nodes)
       /\ helpers[h] = pre.helpers[h]

\* an apply failed on the world bounds for a later pending group, after the
\* updates of the first pending group had been computed
C1_Witness ==
  /\ result.op = "apply" /\ result.helper = "A" /\ ~result.ok
  /\ result.error = ExceedsWorldBounds
  /\ pre.helpers["A"].tag = "ChangedLinkedGroups"
  /\ Len(pre.helpers["A"].changedLinkedGroups) >= 2
  /\ ~ComputeFails(pre.nodes, worldBounds,
                   <<pre.helpers["A"].changedLinkedGroups[1]>>)
  /\ OtherMembers(pre.nodes, pre.helpers["A"].changedLinkedGroups[1]) # {}

\* C2: after a successful applyLinkedGroupUpdates, undoLinkedGroupUpdates hands the
\* stored old children to performReplaceChildren, and every updated target group
\* has again the children, the same nodes in the same order, it had before the apply.
C2_UndoRestoresChildren ==
  \A h \in HelperNames :
    /\ result.op = "undo" /\ result.helper = h
    /\ hist[h].applied /\ ~hist[h].installed /\ ~hist[h].collated
    /\ \A o \in HelperNames : ~hist[o].collated
    => /\ result.replaceCalls = 1
       /\ \A i \in DOMAIN helpers[h].linkedGroupUpdates :
            helpers[h].linkedGroupUpdates[i].node \in DOMAIN hist[h].heap
            => nodes[helpers[h].linkedGroupUpdates[i].node].children
                 = hist[h].heap[helpers[h].linkedGroupUpdates[i].node].children

\* an undo after an apply that updated a nested linked group and the group
\* around it, which changed the children of both targets back
C2_Witness ==
  /\ result.op = "undo" /\ result.helper = "A"
  /\ hist["A"].applied /\ ~hist["A"].installed
  /\ Len(helpers["A"].linkedGroupUpdates) >= 2
  /\ \A i \in DOMAIN helpers["A"].linkedGroupUpdates :
       /\ helpers["A"].linkedGroupUpdates[i].node \in DOMAIN hist["A"].heap
       /\ pre.nodes[helpers["A"].linkedGroupUpdates[i].node].children
            # nodes[helpers["A"].linkedGroupUpdates[i].node].children
  /\ \E i \in DOMAIN helpers["A"].linkedGroupUpdates,
        j \in DOMAIN helpers["A"].linkedGroupUpdates :
       isAncestorOf(hist["A"].heap, helpers["A"].linkedGroupUpdates[j].node,
                    helpers["A"].linkedGroupUpdates[i].node)

\* C3: when A and then B have applied their updates and A.collateWith(B) was
\* called, an undo of A gives every target that existed before A's apply the
\* children it had before A's apply, and the live document is again the one
\* before A's apply, not the one between the two applies.
C3_CollatedUndoRestoresOriginal ==
  /\ result.op = "undo" /\ result.helper = "A"
  /\ hist["B"].collated /\ ~hist["A"].installed
  => /\ \A i \in DOMAIN helpers["A"].linkedGroupUpdates :
          helpers["A"].linkedGroupUpdates[i].node \in DOMAIN hist["A"].heap
          => nodes[helpers["A"].linkedGroupUpdates[i].node].children
               = hist["A"].heap[helpers["A"].linkedGroupUpdates[i].node].children
     /\ LiveUnchanged(hist["A"].heap, nodes)

\* the collated A was undone, where B had updated a target A had updated too,
\* to children other than those before A's apply, and a target A had not
C3_Witness ==
  /\ result.op = "undo" /\ result.helper = "A"
  /\ hist["B"].collated /\ ~hist["A"].installed
  /\ \E i \in DOMAIN helpers["B"].linkedGroupUpdates :
       /\ helpers["B"].linkedGroupUpdates[i].children # <<>>
       /\ helpers["B"].linkedGroupUpdates[i].node \in DOMAIN hist["A"].heap
       /\ helpers["B"].linkedGroupUpdates[i].children
            # hist["A"].heap[helpers["B"].linkedGroupUpdates[i].node].children
  /\ \E i \in DOMAIN helpers["B"].linkedGroupUpdates :
       helpers["B"].linkedGroupUpdates[i].children = <<>>

\* C4: in A.collateWith(B), every target node B updated and A did not is in A
\* afterwards with the old children B held for it, and is no longer among B's
\* updates; no node is among the old children held by both helpers.
C4_AdoptedAndRemoved ==
  result.op = "collate"
  => /\ \A i \in DOMAIN pre.helpers["B"].linkedGroupUpdates :
          ~updatesNode(pre.helpers["A"].linkedGroupUpdates,
                       pre.helpers["B"].linkedGroupUpdates[i].node)
          => /\ updatesNode(helpers["A"].linkedGroupUpdates,
                            pre.helpers["B"].linkedGroupUpdates[i].node)
             /\ childrenFor(helpers["A"].linkedGroupUpdates,
                            pre.helpers["B"].linkedGroupUpdates[i].node)
                  = pre.helpers["B"].linkedGroupUpdates[i].children
             /\ ~updatesNode(helpers["B"].linkedGroupUpdates,
                             pre.helpers["B"].linkedGroupUpdates[i].node)
     /\ \A i \in DOMAIN helpers["A"].linkedGroupUpdates,
           j \in DOMAIN helpers["B"].linkedGroupUpdates :
          Range(helpers["A"].linkedGroupUpdates[i].children)
            \cap Range(helpers["B"].linkedGroupUpdates[j].children) = {}

\* C5: in a helper's pending groups a group comes before every pending group it
\* is a descendant of, and in the updates computed from them the pairs for the
\* descendant's link set come before the pairs for the ancestor's.
C5_DescendantsBeforeAncestors ==
  \A h \in HelperNames :
    /\ helpers[h].tag = "ChangedLinkedGroups"
       => \A i \in DOMAIN helpers[h].changedLinkedGroups,
             j \in DOMAIN helpers[h].changedLinkedGroups :
            isAncestorOf(nodes, helpers[h].changedLinkedGroups[j],
                         helpers[h].changedLinkedGroups[i]) => i < j
    /\ /\ result.op = "apply" /\ result.helper = h /\ result.ok
       /\ pre.helpers[h].tag = "ChangedLinkedGroups"
       => \A d \in Range(pre.helpers[h].changedLinkedGroups),
             a \in Range(pre.helpers[h].changedLinkedGroups) :
            isAncestorOf(pre.nodes, a, d)
            => \A i \in DOMAIN helpers[h].linkedGroupUpdates,
                  j \in DOMAIN helpers[h].linkedGroupUpdates :
                 /\ helpers[h].linkedGroupUpdates[i].node \in OtherMembers(pre.nodes, d)
                 /\ helpers[h].linkedGroupUpdates[j].node \in OtherMembers(pre.nodes, a)
                 => i < j

\* C6: checkLinkedGroupsToUpdate returns true exactly when no two entries of the
\* list have the same linkedGroupId.
C6_CheckIffNoSharedId ==
  result.op = "checkLinkedGroupsToUpdate"
  => (result.value <=> ~SharedLinkedGroupId(nodes, result.list))

\* a list was rejected whose two entries of one link set are not next to each other
C6_Witness ==
  /\ result.op = "checkLinkedGroupsToUpdate" /\ ~result.value
  /\ Len(result.list) = 3
  /\ nodes[result.list[1]].linkedGroupId = nodes[result.list[3]].linkedGroupId
  /\ nodes[result.list[1]].linkedGroupId # nodes[result.list[2]].linkedGroupId

\* the target list is empty or holds the source group only
NoOpTargets(source, targets) == targets = <<>> \/ Range(targets) = {source}

\* C7 as stated: for any source group and any world bounds, updateLinkedGroups with
\* an empty target list or one holding only the source returns an empty success.
C7_NoOpTargetsSucceed ==
  /\ result.op = "updateLinkedGroups"
  /\ NoOpTargets(result.source, result.targets)
  => result.ok /\ result.pairs = <<>>

\* C7, amended: for any source group whose transformation is invertible and any
\* world bounds, updateLinkedGroups with an empty target list or one holding only
\* the source returns an empty success.
C7_NoOpTargetsOfInvertibleSourceSucceed ==
  /\ result.op = "updateLinkedGroups"
  /\ NoOpTargets(result.source, result.targets)
  /\ pre.nodes[result.source].trans.a # 0
  => result.ok /\ result.pairs = <<>> /\ nodes = pre.nodes

\* the source-only list was passed, with world bounds an update of another member
\* would exceed
C7_Witness ==
  /\ result.op = "updateLinkedGroups" /\ result.ok
  /\ result.targets = <<result.source>>
  /\ result.pairs = <<>>
  /\ WorldBoundsViolation(pre.nodes, worldBounds, <<result.source>>)

\* the targets the pairs are made for
Erased(source, targets) == SelectSeq(targets, LAMBDA t : t # source)

\* clone c in heap h2 holds the contents of node n of heap h1, which is below
\* source s, with t.transformation * inverse(s.transformation) applied, and so do
\* its children, in order
RECURSIVE HoldsTransformed(_, _, _, _, _, _)
HoldsTransformed(h2, c, h1, n, s, t) ==
  /\ h2[c].kind = h1[n].kind
  /\ h1[n].kind \in {"Entity", "Brush", "Patch"}
       => h2[c].origin = t.trans.a * s.trans.a * (h1[n].origin - s.trans.b) + t.trans.b
  /\ h1[n].kind = "Group"
       => /\ h2[c].trans.a = t.trans.a * s.trans.a * h1[n].trans.a
          /\ h2[c].trans.b = t.trans.a * s.trans.a * (h1[n].trans.b - s.trans.b) + t.trans.b
  /\ /\ h1[n].kind = "Entity" /\ s.trans.a = 1 /\ t.trans.a = 1
       => h2[c].origin = h1[n].origin + t.trans.b - s.trans.b
  /\ Len(h2[c].children) = Len(h1[n].children)
  /\ \A k \in DOMAIN h1[n].children :
       HoldsTransformed(h2, h2[c].children[k], h1, h1[n].children[k], s, t)

\* C8: updateLinkedGroups returns one pair for every target other than the
\* source, which holds clones of the source's children whose contents have
\* t.transformation * inverse(s.transformation) applied (for a nested group,
\* composed onto its transformation); with translations only, a cloned entity is
\* at the source entity's origin plus t's translation minus s's.
C8_ClonesHoldTransformedContents ==
  result.op = "updateLinkedGroups" /\ result.ok
  => /\ Len(result.pairs) = Len(Erased(result.source, result.targets))
     /\ \A i \in DOMAIN result.pairs :
          /\ result.pairs[i].node = Erased(result.source, result.targets)[i]
          /\ Len(result.pairs[i].children) = Len(pre.nodes[result.source].children)
          /\ \A k \in DOMAIN result.pairs[i].children :
               /\ result.pairs[i].children[k] \notin DOMAIN pre.nodes
               /\ HoldsTransformed(nodes, result.pairs[i].children[k], pre.nodes,
                    pre.nodes[result.source].children[k],
                    pre.nodes[result.source], pre.nodes[result.pairs[i].node])

\* two targets were updated from a translated and mirrored source, one of them
\* translated itself
C8_Witness ==
  /\ result.op = "updateLinkedGroups" /\ result.ok
  /\ Len(result.pairs) = 2
  /\ pre.nodes[result.source].trans = [a |-> -1, b |-> 16]
  /\ \E i \in DOMAIN result.pairs : pre.nodes[result.pairs[i].node].trans.b # 0
  /\ \E i \in DOMAIN result.pairs :
       nodes[result.pairs[i].children[1]].origin
         # pre.nodes[pre.nodes[result.source].children[1]].origin

\* C9: when the source group's transformation is not invertible, updateLinkedGroups
\* returns the error 'Group transformation is not invertible' and no pair.
C9_SingularSourceIsNotInvertible ==
  /\ result.op = "updateLinkedGroups"
  /\ pre.nodes[result.source].trans.a = 0
  => /\ ~result.ok
     /\ result.error = NotInvertible
     /\ result.pairs = <<>>
     /\ nodes = pre.nodes

\* a source that is not invertible was passed with two other members as targets
C9_Witness ==
  /\ result.op = "updateLinkedGroups" /\ result.error = NotInvertible
  /\ pre.nodes[result.source].trans.a = 0
  /\ Len(Erased(result.source, result.targets)) = 2

\* every brush of source s transforms for target t: clones are produced for t
TransformsFor(heap, s, t) ==
  \A n \in Descendants(heap, s) : heap[n].kind = "Brush" => heap[t].trans.a # 0

\* a clone produced for target t of source s is outside the world bounds
CloneOutOfBounds(heap, wb, s, t) ==
  /\ heap[s].trans.a # 0
  /\ TransformsFor(heap, s, t)
  /\ \E n \in Descendants(heap, s) :
       /\ heap[n].kind \in {"Entity", "Brush", "Patch"}
       /\ \/ ImageIn(heap[s], heap[t], heap[n]) - HalfSize(heap[n]) < wb.min
          \/ ImageIn(heap[s], heap[t], heap[n]) + HalfSize(heap[n]) > wb.max

\* the target groups and the nodes below them are as they were
TargetsUnmodified(h1, h2, targets) ==
  \A t \in Range(targets) :
    /\ h2[t] = h1[t]
    /\ \A c \in Descendants(h1, t) : h2[c] = h1[c]

\* C10 as stated: when a clone produced for a target is outside the world bounds,
\* updateLinkedGroups returns the error 'Updating a linked node would exceed world
\* bounds', and the target group and its children are unmodified.
C10_OutOfBoundsIsExceedsWorldBounds ==
  /\ result.op = "updateLinkedGroups"
  /\ \E i \in DOMAIN Erased(result.source, result.targets) :
       CloneOutOfBounds(pre.nodes, worldBounds, result.source,
                        Erased(result.source, result.targets)[i])
  => /\ ~result.ok
     /\ result.error = ExceedsWorldBounds
     /\ TargetsUnmodified(pre.nodes, nodes, result.targets)

\* C10, amended: when a clone produced for a target is outside the world bounds,
\* updateLinkedGroups returns an error and no pair, and the target groups and
\* their children are unmodified; the error is the one of the first target in the
\* order of the list whose clones cannot be made: 'Updating a linked node would
\* exceed world bounds' when that target has a clone outside the world bounds,
\* 'Failed to transform a linked node' when a brush fails to transform for it.
C10_FirstFailingTargetGivesTheError ==
  /\ result.op = "updateLinkedGroups"
  /\ pre.nodes[result.source].trans.a # 0
  => \A i \in DOMAIN Erased(result.source, result.targets) :
       CloneOutOfBounds(pre.nodes, worldBounds, result.source,
                        Erased(result.source, result.targets)[i])
       => /\ ~result.ok
          /\ result.pairs = <<>>
          /\ TargetsUnmodified(pre.nodes, nodes, result.targets)
          /\ \A k \in 1..i :
               /\ \/ ~TransformsFor(pre.nodes, result.source,
                                    Erased(result.source, result.targets)[k])
                  \/ CloneOutOfBounds(pre.nodes, worldBounds, result.source,
                                      Erased(result.source, result.targets)[k])
               /\ \A j \in 1..(k - 1) :
                    /\ TransformsFor(pre.nodes, result.source,
                                     Erased(result.source, result.targets)[j])
                    /\ ~CloneOutOfBounds(pre.nodes, worldBounds, result.source,
                                         Erased(result.source, result.targets)[j])
               => result.error
                    = IF TransformsFor(pre.nodes, result.source,
                                       Erased(result.source, result.targets)[k])
                        THEN ExceedsWorldBounds
                        ELSE TransformFailed

\* of three targets the first and the third had a clone outside the world bounds
\* and a brush failed to transform for the second: the error is the first one's
C10_Witness ==
  /\ result.op = "updateLinkedGroups" /\ result.error = ExceedsWorldBounds
  /\ Len(result.targets) = 3
  /\ Erased(result.source, result.targets) = result.targets
  /\ CloneOutOfBounds(pre.nodes, worldBounds, result.source, result.targets[1])
  /\ ~TransformsFor(pre.nodes, result.source, result.targets[2])
  /\ CloneOutOfBounds(pre.nodes, worldBounds, result.source, result.targets[3])

\* the clones for target t of source s cannot all be made
CloningFails(heap, wb, s, t) ==
  ~TransformsFor(heap, s, t) \/ CloneOutOfBounds(heap, wb, s, t)

\* C11: updateLinkedGroups is all-or-nothing: when the clones for any one target
\* cannot be made, because a brush fails to transform or a clone is outside the
\* world bounds, the call returns an error, no pair for any target, and leaves no
\* clone behind; when the first such target fails to transform a brush, the error
\* is 'Failed to transform a linked node'.
C11_AnyFailingTargetFailsAll ==
  /\ result.op = "updateLinkedGroups"
  /\ pre.nodes[result.source].trans.a # 0
  => \A i \in DOMAIN Erased(result.source, result.targets) :
       CloningFails(pre.nodes, worldBounds, result.source,
                    Erased(result.source, result.targets)[i])
       => /\ ~result.ok
          /\ result.error \in {TransformFailed, ExceedsWorldBounds}
          /\ result.pairs = <<>>
          /\ nodes = pre.nodes
          /\ /\ ~TransformsFor(pre.nodes, result.source,
                               Erased(result.source, result.targets)[i])
             /\ \A j \in 1..(i - 1) :
                  ~CloningFails(pre.nodes, worldBounds, result.source,
                                Erased(result.source, result.targets)[j])
             => result.error = TransformFailed

\* the clones for the first of two targets could be made, a brush failed to
\* transform for the second
C11_Witness ==
  /\ result.op = "updateLinkedGroups" /\ result.error = TransformFailed
  /\ Len(result.targets) = 2
  /\ Erased(result.source, result.targets) = result.targets
  /\ ~CloningFails(pre.nodes, worldBounds, result.source, result.targets[1])
  /\ ~TransformsFor(pre.nodes, result.source, result.targets[2])
  /\ result.pairs = <<>>

\* clone c in heap h2, whose parent is to be p, has the shape of node n of heap
\* h1: the same variant, and as many children, which have in order the shapes of
\* n's children
RECURSIVE SameShape(_, _, _, _, _)
SameShape(h2, c, p, h1, n) ==
  /\ h2[c].kind = h1[n].kind
  /\ h2[c].parent = p
  /\ Len(h2[c].children) = Len(h1[n].children)
  /\ \A k \in DOMAIN h1[n].children :
       SameShape(h2, h2[c].children[k], c, h1, h1[n].children[k])

\* the nodes of the forest below the given roots
Forest(heap, roots) ==
  UNION {{c} \cup Descendants(heap, c) : c \in Range(roots)}

\* C12: on success, the replacement children returned for a target are a detached
\* forest with the shape of the source group's child subtree: one new parentless
\* node per child of the source, of the same variant, with children of the same
\* variants in the same order all the way down; as many nodes as the source has
\* descendants, none of them a node of the document and none shared between two
\* targets, so the source group node itself is not cloned.
C12_ReplacementHasShapeOfSource ==
  result.op = "updateLinkedGroups" /\ result.ok
  => /\ \A i \in DOMAIN result.pairs :
          /\ Len(result.pairs[i].children) = Len(pre.nodes[result.source].children)
          /\ \A k \in DOMAIN result.pairs[i].children :
               SameShape(nodes, result.pairs[i].children[k], NoNode,
                         pre.nodes, pre.nodes[result.source].children[k])
          /\ Cardinality(Forest(nodes, result.pairs[i].children))
               = Cardinality(Descendants(pre.nodes, result.source))
          /\ Forest(nodes, result.pairs[i].children) \cap DOMAIN pre.nodes = {}
          /\ \A j \in DOMAIN result.pairs :
               j # i => Forest(nodes, result.pairs[i].children)
                          \cap Forest(nodes, result.pairs[j].children) = {}
     /\ Len(nodes) = Len(pre.nodes)
          + Len(result.pairs) * Cardinality(Descendants(pre.nodes, result.source))
     /\ \A n \in DOMAIN pre.nodes : Range(nodes[n].children) \subseteq DOMAIN pre.nodes

\* the children of a source with a group in a group were cloned for two targets,
\* the first of which has more children than the source
C12_Witness ==
  /\ result.op = "updateLinkedGroups" /\ result.ok
  /\ Len(result.pairs) = 2
  /\ \E k \in DOMAIN pre.nodes[result.source].children :
       \E c \in Range(pre.nodes[pre.nodes[result.source].children[k]].children) :
         pre.nodes[c].kind = "Group"
  /\ Len(pre.nodes[result.pairs[1].node].children)
       > Len(pre.nodes[result.source].children)
  /\ Cardinality(Forest(nodes, result.pairs[2].children)) = 4

\* the source group, the target groups and the nodes below them
SubtreesOf(heap, source, targets) ==
  UNION {{g} \cup Descendants(heap, g) : g \in {source} \cup Range(targets)}

\* C13: updateLinkedGroups, whether it succeeds or fails, changes nothing in the
\* source group's subtree or in any target group's subtree: every node there has
\* the contents, the children and the parent it had, and so has every other node
\* of the document.
C13_SubtreesUnchanged ==
  result.op = "updateLinkedGroups"
  => /\ \A n \in SubtreesOf(pre.nodes, result.source, result.targets) :
          nodes[n] = pre.nodes[n]
     /\ \A n \in DOMAIN pre.nodes : nodes[n] = pre.nodes[n]

\* a call succeeded in which both passes wrote into a clone: a cloned group has
\* the name of the target's group, not the source's, and a cloned entity the
\* target's protected properties, not the source's
C13_Witness ==
  /\ result.op = "updateLinkedGroups" /\ result.ok
  /\ \E i \in DOMAIN result.pairs :
       \E k \in DOMAIN result.pairs[i].children :
         /\ nodes[result.pairs[i].children[k]].kind = "Group"
         /\ nodes[result.pairs[i].children[k]].name
              # pre.nodes[pre.nodes[result.source].children[k]].name
  /\ \E i \in DOMAIN result.pairs :
       \E k \in DOMAIN result.pairs[i].children :
         /\ nodes[result.pairs[i].children[k]].kind = "Entity"
         /\ nodes[result.pairs[i].children[k]].protectedProperties
              # pre.nodes[pre.nodes[result.source].children[k]].protectedProperties

\* the group nodes that contain node n
Containers(heap, n) ==
  {o \in DOMAIN heap : heap[o].kind = "Group" /\ isAncestorOf(heap, o, n)}

\* C14: a call of updateLinkedGroups on a source group that is nested in an outer
\* group is decided by the source's and the targets' own transformations alone:
\* it succeeds exactly when the source's own transformation is invertible and the
\* clones can be made with t.transformation * inverse(s.transformation), the
\* clones hold the source's contents with that map applied, whatever the
\* transformations of the groups around the source and the targets are, and those
\* transformations are as they were.
C14_InnerUpdateIgnoresOuter ==
  /\ result.op = "updateLinkedGroups"
  /\ Containers(pre.nodes, result.source) # {}
  => /\ result.ok
          <=> /\ pre.nodes[result.source].trans.a # 0
              /\ \A i \in DOMAIN Erased(result.source, result.targets) :
                   ~CloningFails(pre.nodes, worldBounds, result.source,
                                 Erased(result.source, result.targets)[i])
     /\ result.ok
          => \A i \in DOMAIN result.pairs :
               \A k \in DOMAIN result.pairs[i].children :
                 HoldsTransformed(nodes, result.pairs[i].children[k], pre.nodes,
                   pre.nodes[result.source].children[k],
                   pre.nodes[result.source], pre.nodes[result.pairs[i].node])
     /\ \A g \in {result.source} \cup Range(result.targets) :
          \A o \in Containers(pre.nodes, g) : nodes[o].trans = pre.nodes[o].trans

\* an inner group was the source and an inner group the target, the group around
\* the source had a transformation that is not invertible and the group around
\* the target a mirroring one, and the call succeeded
C14_Witness ==
  /\ result.op = "updateLinkedGroups" /\ result.ok
  /\ Len(result.pairs) = 1
  /\ \E o \in Containers(pre.nodes, result.source) : pre.nodes[o].trans.a = 0
  /\ \E o \in Containers(pre.nodes, result.pairs[1].node) : pre.nodes[o].trans.a = -1
  /\ nodes[result.pairs[1].children[1]].origin
       # pre.nodes[pre.nodes[result.source].children[1]].origin

\* the subtrees of nodes a and b are structurally isomorphic: the same variant,
\* as many children, and isomorphic children at every position
RECURSIVE Isomorphic(_, _, _)
Isomorphic(heap, a, b) ==
  /\ heap[a].kind = heap[b].kind
  /\ Len(heap[a].children) = Len(heap[b].children)
  /\ \A k \in DOMAIN heap[a].children :
       Isomorphic(heap, heap[a].children[k], heap[b].children[k])

\* a target other than the source is not isomorphic to the source
SomeTargetMismatched ==
  \E i \in DOMAIN Erased(result.source, result.targets) :
    ~Isomorphic(pre.nodes, result.source, Erased(result.source, result.targets)[i])

\* C15 as stated: updateLinkedGroups fails when a target's subtree is not
\* structurally isomorphic to the source's subtree.
C15_MismatchedTargetFails ==
  result.op = "updateLinkedGroups" /\ SomeTargetMismatched => ~result.ok

\* the positions at which the passes pair a clone with a node of the old target:
\* the top positions that both lists have, and below a pair of Group nodes the
\* positions that both child lists have; each with the source node of the clone
RECURSIVE PositionPairs(_, _, _, _, _)
PositionPairs(h2, clones, h1, sources, correspondings) ==
  UNION {
    {[clone |-> clones[k], source |-> sources[k], corresponding |-> correspondings[k]]}
      \cup (IF h2[clones[k]].kind = "Group" /\ h1[correspondings[k]].kind = "Group"
              THEN PositionPairs(h2, h2[clones[k]].children, h1,
                                 h1[sources[k]].children,
                                 h1[correspondings[k]].children)
              ELSE {})
    : k \in DOMAIN clones \cap DOMAIN correspondings }

\* the position pairs of the i-th pair of the result
PairsOf(i) ==
  PositionPairs(nodes, result.pairs[i].children, pre.nodes,
                pre.nodes[result.source].children,
                pre.nodes[result.pairs[i].node].children)

GroupPairs(i) ==
  {p \in PairsOf(i) :
     nodes[p.clone].kind = "Group" /\ pre.nodes[p.corresponding].kind = "Group"}

EntityPairs(i) ==
  {p \in PairsOf(i) :
     nodes[p.clone].kind = "Entity" /\ pre.nodes[p.corresponding].kind = "Entity"}

\* every clone below the given clones, with the source node it was cloned from
RECURSIVE ClonesWithSources(_, _, _, _)
ClonesWithSources(h2, clones, h1, sources) ==
  UNION {
    {[clone |-> clones[k], source |-> sources[k]]}
      \cup ClonesWithSources(h2, h2[clones[k]].children, h1, h1[sources[k]].children)
    : k \in DOMAIN clones \cap DOMAIN sources }

\* the clones of the i-th pair that no pass pairs with a node of its variant
Unpaired(i) ==
  {c \in ClonesWithSources(nodes, result.pairs[i].children, pre.nodes,
                           pre.nodes[result.source].children) :
     \A p \in GroupPairs(i) \cup EntityPairs(i) : p.clone # c.clone}

\* C16: the preservation passes never make updateLinkedGroups fail: the call
\* succeeds whenever the source's transformation is invertible and the clones can
\* be made; and every clone that has no node of the old target at its position,
\* or one of another variant, or that lies below such a clone, has the name, the
\* properties and the protected properties of the source node it was cloned from.
C16_PassesSkipAndNeverFail ==
  result.op = "updateLinkedGroups"
  => /\ /\ pre.nodes[result.source].trans.a # 0
        /\ \A i \in DOMAIN Erased(result.source, result.targets) :
             ~CloningFails(pre.nodes, worldBounds, result.source,
                           Erased(result.source, result.targets)[i])
        => result.ok
     /\ result.ok
          => \A i \in DOMAIN result.pairs :
               \A c \in Unpaired(i) :
                 /\ nodes[c.clone].name = pre.nodes[c.source].name
                 /\ nodes[c.clone].properties = pre.nodes[c.source].properties
                 /\ nodes[c.clone].protectedProperties
                      = pre.nodes[c.source].protectedProperties

\* the call succeeded for a target that has a group where the source has an
\* entity with protected properties and an entity where the source has a group,
\* and for a target with a group that has fewer children than the source's
C16_Witness ==
  /\ result.op = "updateLinkedGroups" /\ result.ok
  /\ Len(result.pairs) = 2
  /\ \E p \in PairsOf(1) :
       /\ nodes[p.clone].kind = "Entity"
       /\ pre.nodes[p.corresponding].kind = "Group"
       /\ nodes[p.clone].protectedProperties # <<>>
       /\ nodes[p.clone].properties # <<>>
  /\ \E p \in PairsOf(1) :
       /\ nodes[p.clone].kind = "Group"
       /\ pre.nodes[p.corresponding].kind = "Entity"
       /\ nodes[p.clone].name # ""
  /\ \E p \in GroupPairs(2) :
       Len(pre.nodes[p.corresponding].children) < Len(nodes[p.clone].children)

\* C17: at every position at which both the clone and the old target have a Group
\* node, reached through matching Group nodes, the replacement group carries the
\* old target group's name.
C17_GroupNamesOfTarget ==
  result.op = "updateLinkedGroups" /\ result.ok
  => \A i \in DOMAIN result.pairs :
       \A p \in GroupPairs(i) :
         nodes[p.clone].name = pre.nodes[p.corresponding].name

\* a replacement group at the top and one below it carry names of the old
\* target's groups that differ from the names of the source's groups
C17_Witness ==
  /\ result.op = "updateLinkedGroups" /\ result.ok
  /\ \E i \in DOMAIN result.pairs :
       \E p \in GroupPairs(i), q \in GroupPairs(i) :
         /\ nodes[q.clone].parent = p.clone
         /\ nodes[p.clone].name = pre.nodes[p.corresponding].name
         /\ nodes[p.clone].name # pre.nodes[p.source].name
         /\ nodes[q.clone].name = pre.nodes[q.corresponding].name
         /\ nodes[q.clone].name # pre.nodes[q.source].name

\* the keys protected on the source entity, on the old target entity, or on both
ProtectedOnEither(p) ==
  Range(pre.nodes[p.source].protectedProperties)
    \cup Range(pre.nodes[p.corresponding].protectedProperties)

\* C18: for every entity position pair and every key protected on the source
\* entity, on the old target entity, or on both, the replacement entity has the
\* key with the old target's value if the old target had the key, and does not
\* have the key otherwise.
C18_ProtectedKeysOfTarget ==
  result.op = "updateLinkedGroups" /\ result.ok
  => \A i \in DOMAIN result.pairs :
       \A p \in EntityPairs(i) :
         \A key \in ProtectedOnEither(p) :
           IF hasProperty(pre.nodes[p.corresponding].properties, key)
             THEN /\ hasProperty(nodes[p.clone].properties, key)
                  /\ property(nodes[p.clone].properties, key)
                       = property(pre.nodes[p.corresponding].properties, key)
             ELSE ~hasProperty(nodes[p.clone].properties, key)

\* in one replacement entity, a key protected on one side only has the old
\* target's value, which differs from the source's, and a key protected on either
\* side that the source has and the old target lacks is gone
C18_Witness ==
  /\ result.op = "updateLinkedGroups" /\ result.ok
  /\ \E i \in DOMAIN result.pairs :
       \E p \in EntityPairs(i) :
         /\ \E key \in ProtectedOnEither(p) :
              /\ key \notin Range(pre.nodes[p.source].protectedProperties)
                              \cap Range(pre.nodes[p.corresponding].protectedProperties)
              /\ hasProperty(pre.nodes[p.source].properties, key)
              /\ hasProperty(pre.nodes[p.corresponding].properties, key)
              /\ property(nodes[p.clone].properties, key)
                   # property(pre.nodes[p.source].properties, key)
         /\ \E key \in ProtectedOnEither(p) :
              /\ hasProperty(pre.nodes[p.source].properties, key)
              /\ ~hasProperty(pre.nodes[p.corresponding].properties, key)
              /\ ~hasProperty(nodes[p.clone].properties, key)

\* C19: for every entity position pair and every key protected on neither the
\* source entity nor the old target entity, the replacement entity has exactly
\* the source's value for the key, or lacks the key if the source lacks it.
C19_UnprotectedKeysOfSource ==
  result.op = "updateLinkedGroups" /\ result.ok
  => \A i \in DOMAIN result.pairs :
       \A p \in EntityPairs(i) :
         \A key \in AllKeys \ ProtectedOnEither(p) :
           IF hasProperty(pre.nodes[p.source].properties, key)
             THEN /\ hasProperty(nodes[p.clone].properties, key)
                  /\ property(nodes[p.clone].properties, key)
                       = property(pre.nodes[p.source].properties, key)
             ELSE ~hasProperty(nodes[p.clone].properties, key)

\* in a replacement entity paired with an old target entity that protects another
\* key, an unprotected key has the source's value where the old target has
\* another value, and in one an unprotected key that the old target has and the
\* source lacks is absent
C19_Witness ==
  /\ result.op = "updateLinkedGroups" /\ result.ok
  /\ \E i \in DOMAIN result.pairs :
       \E p \in EntityPairs(i) :
         /\ ProtectedOnEither(p) # {}
         /\ \E key \in AllKeys \ ProtectedOnEither(p) :
              /\ hasProperty(pre.nodes[p.source].properties, key)
              /\ hasProperty(pre.nodes[p.corresponding].properties, key)
              /\ property(pre.nodes[p.source].properties, key)
                   # property(pre.nodes[p.corresponding].properties, key)
              /\ property(nodes[p.clone].properties, key)
                   = property(pre.nodes[p.source].properties, key)
  /\ \E i \in DOMAIN result.pairs :
       \E p \in EntityPairs(i) :
         /\ ProtectedOnEither(p) # {}
         /\ \E key \in AllKeys \ ProtectedOnEither(p) :
              /\ ~hasProperty(pre.nodes[p.source].properties, key)
              /\ hasProperty(pre.nodes[p.corresponding].properties, key)
              /\ ~hasProperty(nodes[p.clone].properties, key)

\* C20: for every entity position pair, the replacement entity's protected
\* properties are the old target entity's, whatever the source entity's are.
C20_ProtectedSetOfTarget ==
  result.op = "updateLinkedGroups" /\ result.ok
  => \A i \in DOMAIN result.pairs :
       \A p \in EntityPairs(i) :
         /\ nodes[p.clone].protectedProperties
              = pre.nodes[p.corresponding].protectedProperties
         /\ Range(nodes[p.clone].protectedProperties)
              = Range(pre.nodes[p.corresponding].protectedProperties)

\* one replacement entity has the protected properties of an old target entity
\* that protects a key where the source protects none, and one has none where the
\* source protects a key
C20_Witness ==
  /\ result.op = "updateLinkedGroups" /\ result.ok
  /\ \E i \in DOMAIN result.pairs :
       \E p \in EntityPairs(i) :
         /\ pre.nodes[p.source].protectedProperties = <<>>
         /\ pre.nodes[p.corresponding].protectedProperties # <<>>
         /\ nodes[p.clone].protectedProperties
              = pre.nodes[p.corresponding].protectedProperties
  /\ \E i \in DOMAIN result.pairs :
       \E p \in EntityPairs(i) :
         /\ pre.nodes[p.source].protectedProperties # <<>>
         /\ pre.nodes[p.corresponding].protectedProperties = <<>>
         /\ nodes[p.clone].protectedProperties = <<>>

\* the place of the key in the ordered property list
IndexOf(properties, key) ==
  CHOOSE i \in DOMAIN properties : properties[i].key = key

\* C21: in the replacement entity's ordered property list, every protected key
\* restored from the old target comes after all unprotected keys kept from the
\* source.
C21_RestoredKeysAtTheEnd ==
  result.op = "updateLinkedGroups" /\ result.ok
  => \A i \in DOMAIN result.pairs :
       \A p \in EntityPairs(i) :
         \A key \in ProtectedOnEither(p), other \in AllKeys \ ProtectedOnEither(p) :
           /\ hasProperty(nodes[p.clone].properties, key)
           /\ hasProperty(nodes[p.clone].properties, other)
           => IndexOf(nodes[p.clone].properties, key)
                > IndexOf(nodes[p.clone].properties, other)

\* a key that stood before an unprotected key in the source entity's list was
\* restored from the old target and stands after it in the replacement's list
C21_Witness ==
  /\ result.op = "updateLinkedGroups" /\ result.ok
  /\ \E i \in DOMAIN result.pairs :
       \E p \in EntityPairs(i) :
         \E key \in ProtectedOnEither(p), other \in AllKeys \ ProtectedOnEither(p) :
           /\ hasProperty(pre.nodes[p.source].properties, key)
           /\ hasProperty(pre.nodes[p.source].properties, other)
           /\ IndexOf(pre.nodes[p.source].properties, key)
                < IndexOf(pre.nodes[p.source].properties, other)
           /\ hasProperty(pre.nodes[p.corresponding].properties, key)
           /\ hasProperty(nodes[p.clone].properties, key)
           /\ hasProperty(nodes[p.clone].properties, other)
           /\ IndexOf(nodes[p.clone].properties, key)
                > IndexOf(nodes[p.clone].properties, other)

\* the entities at or below the given groups
EntitiesBelow(heap, groups) ==
  {n \in UNION {Descendants(heap, g) : g \in Range(groups)} : heap[n].kind = "Entity"}

\* C22: setLinkIds called with zero or one group returns the error 'Link set must
\* contain at least two groups' and changes no entity's linkId.
C22_FewerThanTwoGroupsIsAnError ==
  result.op = "setLinkIds" /\ Len(result.groups) < 2
  => /\ ~result.ok
     /\ result.error = LinkSetTooSmall
     /\ \A n \in DOMAIN pre.nodes : nodes[n].linkId = pre.nodes[n].linkId
     /\ nodes = pre.nodes

\* setLinkIds was called with one group that has an entity with a link id and
\* one without
C22_Witness ==
  /\ result.op = "setLinkIds" /\ Len(result.groups) = 1
  /\ result.error = LinkSetTooSmall
  /\ \E n \in EntitiesBelow(pre.nodes, result.groups) : pre.nodes[n].linkId # NoLinkId
  /\ \E n \in EntitiesBelow(pre.nodes, result.groups) : pre.nodes[n].linkId = NoLinkId

\* the nodes at position k below the nodes of tuple t, one per group
ChildTuple(heap, t, k) == [i \in DOMAIN t |-> heap[t[i]].children[k]]

\* the tuples of nodes at the same position below the groups of tuple t, which
\* are isomorphic
RECURSIVE PositionsBelow(_, _)
PositionsBelow(heap, t) ==
  UNION {{ChildTuple(heap, t, k)} \cup PositionsBelow(heap, ChildTuple(heap, t, k))
         : k \in DOMAIN heap[t[1]].children}

\* a nested group that is linked with another id than the containing link set
ForeignGroup(heap, n, linkedGroupId) ==
  /\ heap[n].kind = "Group"
  /\ heap[n].linkedGroupId \notin {NoLinkedGroupId, linkedGroupId}

\* the positions among them that are not inside a nested group of the first
\* group that is linked with another id
RECURSIVE OwnPositionsBelow(_, _, _)
OwnPositionsBelow(heap, t, linkedGroupId) ==
  UNION {{ChildTuple(heap, t, k)}
           \cup (IF ForeignGroup(heap, t[1], linkedGroupId) THEN {}
                 ELSE OwnPositionsBelow(heap, ChildTuple(heap, t, k), linkedGroupId))
         : k \in IF ForeignGroup(heap, t[1], linkedGroupId) THEN {}
                 ELSE DOMAIN heap[t[1]].children}

\* the positions at which the first group has an entity
EntityPositions(heap, positions) == {t \in positions : heap[t[1]].kind = "Entity"}

\* all passed groups are isomorphic to the first
AllIsomorphic(heap, groups) ==
  \A i \in DOMAIN groups : Isomorphic(heap, groups[1], groups[i])

\* at each of the positions the entities have one link id, and it is not the
\* link id of another of the positions
LinkedPerPosition(heap, positions) ==
  /\ \A t \in positions :
       \A i \in DOMAIN t : heap[t[i]].linkId # NoLinkId /\ heap[t[i]].linkId = heap[t[1]].linkId
  /\ \A t \in positions, u \in positions :
       t # u => heap[t[1]].linkId # heap[u[1]].linkId

\* C23 as stated: after a successful setLinkIds on two or more structurally
\* isomorphic groups of one link set, entities at the same position in all passed
\* groups have the same linkId, every such entity has a linkId, and entities at
\* different positions have different linkIds.
C23_EveryPositionLinked ==
  /\ result.op = "setLinkIds" /\ result.ok
  /\ AllIsomorphic(pre.nodes, result.groups)
  => LinkedPerPosition(nodes,
       EntityPositions(pre.nodes, PositionsBelow(pre.nodes, result.groups)))

\* C23, amended: after a successful setLinkIds on two or more structurally
\* isomorphic groups of one link set, entities at the same position in all passed
\* groups that is not inside a nested group of the first group linked with
\* another id have the same linkId, every such entity has a linkId, and entities
\* at different such positions have different linkIds.
C23_EveryOwnPositionLinked ==
  /\ result.op = "setLinkIds" /\ result.ok
  /\ AllIsomorphic(pre.nodes, result.groups)
  => LinkedPerPosition(nodes,
       EntityPositions(pre.nodes,
         OwnPositionsBelow(pre.nodes, result.groups,
                           pre.nodes[result.groups[1]].linkedGroupId)))

\* setLinkIds succeeded on three isomorphic groups with two entity positions,
\* one of them inside an unlinked inner group
C23_Witness ==
  /\ result.op = "setLinkIds" /\ result.ok
  /\ Len(result.groups) = 3
  /\ AllIsomorphic(pre.nodes, result.groups)
  /\ Cardinality(EntityPositions(pre.nodes,
       OwnPositionsBelow(pre.nodes, result.groups,
                         pre.nodes[result.groups[1]].linkedGroupId))) = 2
  /\ \E n \in EntitiesBelow(nodes, result.groups) :
       nodes[nodes[n].parent].kind = "Group"
       /\ nodes[nodes[n].parent].linkedGroupId = NoLinkedGroupId

\* nodes a and b have the same structure as far as the walks of setLinkIds go:
\* the same variant, and below a group that is not linked with another id and
\* below an entity as many children, of the same structure at every position
RECURSIVE OwnIsomorphic(_, _, _, _)
OwnIsomorphic(heap, a, b, linkedGroupId) ==
  /\ heap[a].kind = heap[b].kind
  /\ \/ ForeignGroup(heap, a, linkedGroupId)
     \/ heap[a].kind \in {"Brush", "Patch"}
     \/ /\ Len(heap[a].children) = Len(heap[b].children)
        /\ \A k \in DOMAIN heap[a].children :
             OwnIsomorphic(heap, heap[a].children[k], heap[b].children[k],
                           linkedGroupId)

\* no entity below any of the groups has a link id
NoLinkIdsBelow(heap, groups) ==
  \A n \in EntitiesBelow(heap, groups) : heap[n].linkId = NoLinkId

\* C24 as stated: if any passed group differs structurally from the first one,
\* setLinkIds returns the error 'Inconsistent linked group structure' and
\* afterwards no entity under any passed group has a linkId.
C24_AnyMismatchIsAnError ==
  /\ result.op = "setLinkIds" /\ Len(result.groups) >= 2
  /\ ~AllIsomorphic(pre.nodes, result.groups)
  => /\ ~result.ok
     /\ result.error = InconsistentStructure
     /\ NoLinkIdsBelow(nodes, result.groups)

\* C24, amended: if any passed group differs structurally from the first one at
\* a position that is not inside a nested group of the first group linked with
\* another id, setLinkIds returns the error 'Inconsistent linked group structure'
\* and afterwards no entity under any passed group has a linkId.
C24_OwnMismatchIsAnError ==
  /\ result.op = "setLinkIds" /\ Len(result.groups) >= 2
  /\ \E i \in DOMAIN result.groups :
       ~OwnIsomorphic(pre.nodes, result.groups[1], result.groups[i],
                      pre.nodes[result.groups[1]].linkedGroupId)
  => /\ ~result.ok
     /\ result.error = InconsistentStructure
     /\ NoLinkIdsBelow(nodes, result.groups)

\* of three groups the second differed from the first and the third did not;
\* entities of the first and the third had link ids before the call
C24_Witness ==
  /\ result.op = "setLinkIds" /\ result.error = InconsistentStructure
  /\ Len(result.groups) = 3
  /\ ~Isomorphic(pre.nodes, result.groups[1], result.groups[2])
  /\ Isomorphic(pre.nodes, result.groups[1], result.groups[3])
  /\ \E n \in EntitiesBelow(pre.nodes, <<result.groups[1]>>) :
       pre.nodes[n].linkId # NoLinkId
  /\ \E n \in EntitiesBelow(pre.nodes, <<result.groups[3]>>) :
       pre.nodes[n].linkId # NoLinkId
  /\ NoLinkIdsBelow(nodes, result.groups)

\* the pairs of nodes at the same position below nodes a and b
RECURSIVE SamePositions(_, _, _)
SamePositions(heap, a, b) ==
  UNION {{<<heap[a].children[k], heap[b].children[k]>>}
           \cup SamePositions(heap, heap[a].children[k], heap[b].children[k])
         : k \in DOMAIN heap[a].children \cap DOMAIN heap[b].children}

\* in every link set of the tree, entities at the same position in different
\* members have the same link id or none of them has one
LinkSetsConsistent(heap) ==
  \A a \in LiveLinkedGroups(heap), b \in LiveLinkedGroups(heap) :
    heap[a].linkedGroupId = heap[b].linkedGroupId =>
      \A p \in SamePositions(heap, a, b) :
        heap[p[1]].kind = "Entity" /\ heap[p[2]].kind = "Entity"
          => heap[p[1]].linkId = heap[p[2]].linkId

\* C25: after a failed setLinkIds no partial or inconsistent link-ID state
\* remains: in every link set of the tree, including link sets of groups nested
\* inside the passed groups, entities at the same position in different members
\* either all have the same linkId or all have none.  Checked from the states
\* in which this held before the call.
C25_FailureLeavesLinkSetsConsistent ==
  /\ result.op = "setLinkIds" /\ ~result.ok
  /\ LinkSetsConsistent(pre.nodes)
  => LinkSetsConsistent(nodes)

\* the entities below group g that lie inside a nested group linked with
\* another id than linkedGroupId
InsideForeignGroups(heap, g, linkedGroupId) ==
  UNION {{n \in Descendants(heap, f) : heap[n].kind = "Entity"}
         : f \in {d \in Descendants(heap, g) : ForeignGroup(heap, d, linkedGroupId)}}

\* the entities below the groups that lie inside a nested group of the first
\* group linked with another id, or inside the group at its position in
\* another of the groups
InsideForeignGroupsOfFirst(heap, groups, linkedGroupId) ==
  UNION {{n \in Descendants(heap, t[i]) : heap[n].kind = "Entity"}
         : t \in {u \in OwnPositionsBelow(heap, groups, linkedGroupId) :
                    ForeignGroup(heap, u[1], linkedGroupId)},
           i \in DOMAIN groups}

\* C26 as stated: a successful setLinkIds on the members of one link set leaves
\* unchanged the linkId of every entity that lies inside a nested group whose
\* linkedGroupId differs from that of the passed groups, in the source group and
\* in every other passed group.
C26_ForeignGroupsUntouched ==
  result.op = "setLinkIds" /\ result.ok
  => \A i \in DOMAIN result.groups :
       \A n \in InsideForeignGroups(pre.nodes, result.groups[i],
                                    pre.nodes[result.groups[1]].linkedGroupId) :
         nodes[n].linkId = pre.nodes[n].linkId

\* what the walks of setLinkIds do leave alone: the entities inside a nested
\* group of the source group whose linkedGroupId differs from that of the passed
\* groups, and the entities inside the group at the same position in every
\* other passed group
C26_ForeignGroupsOfSourceUntouched ==
  result.op = "setLinkIds" /\ result.ok
  => \A n \in InsideForeignGroupsOfFirst(pre.nodes, result.groups,
                                         pre.nodes[result.groups[1]].linkedGroupId) :
       nodes[n].linkId = pre.nodes[n].linkId

\* setLinkIds succeeded on three groups and gave new link ids, while entities
\* inside their nested groups of another link set kept the one they had
C26_Witness ==
  /\ result.op = "setLinkIds" /\ result.ok /\ Len(result.groups) = 3
  /\ \A i \in DOMAIN result.groups :
       \E n \in InsideForeignGroupsOfFirst(pre.nodes, result.groups,
                                           pre.nodes[result.groups[1]].linkedGroupId) :
         /\ n \in Descendants(pre.nodes, result.groups[i])
         /\ pre.nodes[n].linkId # NoLinkId
         /\ nodes[n].linkId = pre.nodes[n].linkId
  /\ \E n \in EntitiesBelow(nodes, result.groups) :
       nodes[n].linkId # pre.nodes[n].linkId

\* C27: after resetLinkIds(groups), no entity anywhere under any of the given
\* groups has a linkId, including entities inside nested groups of other link
\* sets; calling it again changes nothing.
C27_ResetClearsEverything ==
  result.op = "resetLinkIds"
  => /\ NoLinkIdsBelow(nodes, result.groups)
     /\ resetLinkIds(nodes, result.groups) = nodes

\* two groups were reset whose entities had link ids, those inside their
\* nested groups of another link set as well
C27_Witness ==
  /\ result.op = "resetLinkIds" /\ Len(result.groups) = 2
  /\ \A i \in DOMAIN result.groups :
       LET foreign == InsideForeignGroups(pre.nodes, result.groups[i],
                        pre.nodes[result.groups[i]].linkedGroupId)
       IN  /\ \E n \in foreign : pre.nodes[n].linkId # NoLinkId
           /\ \E n \in EntitiesBelow(pre.nodes, <<result.groups[i]>>) \ foreign :
                pre.nodes[n].linkId # NoLinkId
  /\ NoLinkIdsBelow(nodes, result.groups)

\* C28: when generateEntityLinkIds succeeds on groups with identical structure,
\* the returned map gives the same id to all entities at the same tree position
\* across the groups and different ids to entities at different positions, and
\* it contains every entity under the passed groups.
C28_MapLinksEveryPosition ==
  /\ result.op = "generateEntityLinkIds" /\ result.ok
  /\ AllIsomorphic(pre.nodes, result.groups)
  => LET positions ==
           EntityPositions(pre.nodes, PositionsBelow(pre.nodes, result.groups))
     IN  /\ DOMAIN result.map = EntitiesBelow(pre.nodes, result.groups)
         /\ \A t \in positions :
              \A i \in DOMAIN t : result.map[t[i]] = result.map[t[1]]
         /\ \A t \in positions, u \in positions :
              t # u => result.map[t[1]] # result.map[u[1]]

\* generateEntityLinkIds succeeded on three groups with two entity positions,
\* one of them inside a nested group of another link set
C28_Witness ==
  /\ result.op = "generateEntityLinkIds" /\ result.ok
  /\ Len(result.groups) = 3
  /\ AllIsomorphic(pre.nodes, result.groups)
  /\ \E n \in InsideForeignGroups(pre.nodes, result.groups[1],
                                  pre.nodes[result.groups[1]].linkedGroupId) :
       n \in DOMAIN result.map
  /\ \E n \in DOMAIN result.map, m \in DOMAIN result.map :
       result.map[n] # result.map[m]

\* the subtrees below the nodes of tuple t differ in structure: at some position
\* the child counts differ, or some of the nodes are entities and others are not
RECURSIVE DiffersInStructure(_, _)
DiffersInStructure(heap, t) ==
  \/ \E i \in DOMAIN t :
       (heap[t[i]].kind = "Entity") # (heap[t[1]].kind = "Entity")
  \/ \E i \in DOMAIN t :
       Len(heap[t[i]].children) # Len(heap[t[1]].children)
  \/ /\ \A i \in DOMAIN t : Len(heap[t[i]].children) = Len(heap[t[1]].children)
     /\ \E k \in DOMAIN heap[t[1]].children :
          DiffersInStructure(heap, ChildTuple(heap, t, k))

\* C29: generateEntityLinkIds returns no result (nullopt) whenever the passed
\* groups' subtrees differ in structure: a child-count mismatch at any position,
\* or any position at which some of the corresponding nodes are entities and
\* others are not, whichever group the non-entity belongs to.
C29_DifferingStructureGivesNoResult ==
  /\ result.op = "generateEntityLinkIds" /\ Len(result.groups) >= 2
  /\ DiffersInStructure(pre.nodes, result.groups)
  => ~result.ok /\ result.error = NoResult

\* the slots written before a step are the same after it, and at most one slot,
\* that of a running task, is written by it
OnlyOwnSlotWritten ==
  /\ \A n \in DOMAIN result.transformResults :
       /\ n \in DOMAIN result'.transformResults
       /\ result'.transformResults[n] = result.transformResults[n]
  /\ \A n \in DOMAIN result'.transformResults \ DOMAIN result.transformResults :
       /\ n \in result.running
       /\ DOMAIN result'.transformResults = DOMAIN result.transformResults \cup {n}
       /\ result'.transformResults[n]
            = TransformContents(nodes[n], worldBounds, result.transformation)
  /\ nodes' = nodes

\* the outcome of the step is that of cloneAndTransformChildren with the tasks
\* run one after the other in the order of the nodes
SameAsInOrder ==
  LET r == cloneAndTransformChildren(nodes, result.node, worldBounds,
                                     result.transformation)
  IN  /\ nodes' = r.heap
      /\ result'.ok = r.ok /\ result'.error = r.error /\ result'.value = r.value

C30_Step ==
  /\ result.op = "vec_parallel_transform" /\ result'.op = "vec_parallel_transform"
       => OnlyOwnSlotWritten
  /\ result.op = "vec_parallel_transform" /\ result'.op = "cloneAndTransformChildren"
       => SameAsInOrder

\* C30: the result of cloning and transforming a source subtree (the
\* replacement forest, or which error is returned) is the same for every order
\* in which the parallel per-node transform tasks run and complete; each task
\* writes only its own result slot.
C30_ResultIndependentOfSchedule == [][C30_Step]_vars

\* the tasks of four nodes completed in the reverse of the nodes' order and the
\* forest was built
C30_Witness ==
  /\ result.op = "cloneAndTransformChildren" /\ result.ok
  /\ Len(result.completed) = 4
  /\ result.completed
       = [i \in 1..4 |-> collectNodesToCloneAndTransform(pre.nodes, result.node)[5 - i]]
  /\ Len(result.value) = 3

\* no linked group has a group with its linked group id below it
NoRecursiveLinkedGroups(heap) ==
  \A g \in Groups(heap) :
    heap[g].linkedGroupId # NoLinkedGroupId =>
      \A d \in Descendants(heap, g) \cap Groups(heap) :
        heap[d].linkedGroupId # heap[g].linkedGroupId

\* the linked group ids of the groups among the nodes S
LinkedGroupIdsOf(heap, S) ==
  {heap[n].linkedGroupId : n \in S \cap Groups(heap)} \ {NoLinkedGroupId}

\* a linked group id of the child or of a group below it is one of the receiving
\* group or of one of its ancestors
SharesLinkedGroupId(heap, this, child) ==
  LinkedGroupIdsOf(heap, {child} \cup Descendants(heap, child))
    \cap LinkedGroupIdsOf(heap, {this} \cup {a \in DOMAIN heap : isAncestorOf(heap, a, this)})
    # {}

\* C31: in a tree built only by additions that GroupNode::canAddChild allowed,
\* no setGroup having changed the linked group id of a group that had a parent
\* or children, no group node has a descendant group with the same linkedGroupId:
\* canAddChild refuses a group whenever a linkedGroupId of that group or of any
\* of its descendant groups equals a linkedGroupId of the receiving group or of
\* any of its ancestors, and always refuses World and Layer nodes.
C31_NoRecursiveLinkedGroups ==
  /\ ~Relinked => NoRecursiveLinkedGroups(nodes)
  /\ result.op = "addChild" /\ pre.nodes[result.this].kind = "Group"
     => /\ pre.nodes[result.child].kind \in {"World", "Layer"} => ~result.added
        /\ /\ pre.nodes[result.child].kind = "Group"
           /\ SharesLinkedGroupId(pre.nodes, result.this, result.child)
           => ~result.added

\* a group was refused for the linked group id of a group below it, which is
\* that of the receiving group, while the group itself is linked with another id
C31_Witness ==
  /\ result.op = "addChild" /\ ~result.added
  /\ nodes[result.child].kind = "Group" /\ nodes[result.this].kind = "Group"
  /\ nodes[result.child].linkedGroupId # nodes[result.this].linkedGroupId
  /\ \E d \in Descendants(nodes, result.child) \cap Groups(nodes) :
       /\ nodes[d].linkedGroupId # NoLinkedGroupId
       /\ nodes[d].linkedGroupId = nodes[result.this].linkedGroupId
       /\ nodes[result.child].linkedGroupId \notin {NoLinkedGroupId, nodes[d].linkedGroupId}

\* C39: for a source group whose subtree was built only by additions that
\* canAddChild allowed, the clone-and-transform path never reaches a World or
\* Layer node, so its fatal assertion 'Linked group structure is valid' is never
\* triggered.
C39_StructureIsValid ==
  result.op = "cloneAndTransformChildren" => result.error # InvalidStructure

\* the children of a group of the document were cloned, a group with a child
\* among them
C39_Witness ==
  /\ result.op = "cloneAndTransformChildren" /\ result.ok
  /\ isAncestorOf(nodes, WorldId, result.node)
  /\ \E d \in Range(nodes[result.node].children) :
       nodes[d].kind = "Group" /\ nodes[d].children # <<>>

\* the groups above group g, and those below it
AncestorGroups(heap, g) == {a \in Groups(heap) : isAncestorOf(heap, a, g)}
DescendantGroups(heap, g) == Descendants(heap, g) \cap Groups(heap)

\* the step opens a closed group: it is opened afterwards, the groups above it
\* have an opened descendant and are neither opened nor closed, the groups below
\* it are closed as before
OpenedByStep ==
  result'.op = "open" /\ closed(nodes, result'.group)
  => /\ opened(nodes', result'.group)
     /\ \A a \in AncestorGroups(nodes, result'.group) :
          hasOpenedDescendant(nodes', a) /\ ~opened(nodes', a) /\ ~closed(nodes', a)
     /\ \A d \in DescendantGroups(nodes, result'.group) :
          closed(nodes, d) => closed(nodes', d)

\* the step closes the group that the step before it opened: the group and the
\* groups above it are closed afterwards
ClosedByStep ==
  /\ result.op = "open" /\ result'.op = "close" /\ result'.group = result.group
  => /\ closed(nodes', result'.group)
     /\ \A a \in AncestorGroups(nodes, result'.group) : closed(nodes', a)

\* C32: open() on a closed group makes that group opened and every ancestor
\* group report hasOpenedDescendant (neither opened nor closed) while its
\* descendant groups stay closed; a following close() on the same group returns
\* it and all its ancestor groups to closed.
C32_OpenThenClose == [][OpenedByStep /\ ClosedByStep]_vars

\* "group" was closed again: it, the two groups above it and the group below it
\* are closed
C32_Witness ==
  /\ result.op = "close"
  /\ Cardinality(AncestorGroups(nodes, result.group)) = 2
  /\ DescendantGroups(nodes, result.group) # {}
  /\ \A g \in {result.group} \cup AncestorGroups(nodes, result.group)
                \cup DescendantGroups(nodes, result.group) : closed(nodes, g)

\* C37: after any sequence of open() and close() calls that respect their
\* preconditions (open only on a closed group, close only on an opened group),
\* a group node reports hasOpenedDescendant() exactly when at least one of its
\* descendant groups is opened.
C37_HasOpenedDescendantIsExact ==
  \A g \in Groups(nodes) :
    hasOpenedDescendant(nodes, g) <=> \E d \in DescendantGroups(nodes, g) : opened(nodes, d)

\* C36: undoLinkedGroupUpdates on a helper that is still in its pending state
\* (never applied, or whose apply failed) does not call performReplaceChildren
\* and leaves both the document and the helper's pending list unchanged.
C36_UndoOfPendingDoesNothing ==
  \A h \in HelperNames :
    /\ result.op = "undo" /\ result.helper = h
    /\ pre.helpers[h].tag = "ChangedLinkedGroups"
    => /\ result.ok
       /\ result.replaceCalls = 0
       /\ nodes = pre.nodes
       /\ helpers[h] = pre.helpers[h]

\* undo was called on a helper with two pending groups whose apply fails
C36_Witness ==
  /\ result.op = "undo" /\ result.helper = "A"
  /\ pre.helpers["A"].tag = "ChangedLinkedGroups"
  /\ Len(helpers["A"].changedLinkedGroups) >= 2
  /\ ComputeFails(nodes, worldBounds, helpers["A"].changedLinkedGroups)
  /\ ~hist["A"].applied

\* the pairs of the helper after the step are those before it with the children
\* the nodes had before the step
PairsSwapped(h) ==
  /\ Len(helpers'[h].linkedGroupUpdates) = Len(helpers[h].linkedGroupUpdates)
  /\ \A i \in DOMAIN helpers[h].linkedGroupUpdates :
       /\ helpers'[h].linkedGroupUpdates[i].node = helpers[h].linkedGroupUpdates[i].node
       /\ helpers'[h].linkedGroupUpdates[i].children
            = nodes[helpers[h].linkedGroupUpdates[i].node].children
       /\ nodes'[helpers[h].linkedGroupUpdates[i].node].children
            = helpers[h].linkedGroupUpdates[i].children

\* a call of apply or undo on helper h, which holds its updates: one call of
\* performReplaceChildren that swaps the stored children with the current ones,
\* no node is created, and the document is the original one if the updates were
\* installed before the call and the one of the first apply if they were not
SwappedByStep(h) ==
  /\ helpers[h].tag = "LinkedGroupUpdates"
  /\ result'.op \in {"apply", "undo"} /\ result'.helper = h
  => /\ result'.ok /\ result'.replaceCalls = 1
     /\ PairsSwapped(h)
     /\ Len(nodes') = Len(nodes)
     /\ hist[h].installed => LiveUnchanged(hist[h].heap, nodes')
     /\ ~hist[h].installed => nodes' = hist[h].updated

\* C35: once a helper has applied its updates, every further call of
\* applyLinkedGroupUpdates or undoLinkedGroupUpdates does the same thing: it
\* swaps the stored children with the targets' current children without
\* recomputing any clone, so successive calls alternate between the updated and
\* the original document and a redo installs the very replacement nodes of the
\* first apply.
C35_SwapsAlternate == [][SwappedByStep("A")]_vars

\* a second apply after an undo installed the replacement nodes of the first
\* apply again, for a nested linked group and the group around it
C35_Witness ==
  /\ result.op = "apply" /\ result.helper = "A"
  /\ pre.helpers["A"].tag = "LinkedGroupUpdates"
  /\ hist["A"].applied /\ hist["A"].installed
  /\ nodes = hist["A"].updated /\ nodes # pre.nodes
  /\ LiveUnchanged(hist["A"].heap, pre.nodes)
  /\ Len(helpers["A"].linkedGroupUpdates) >= 2

\* C33: after a successful applyLinkedGroupUpdates for any pending list that
\* passes checkLinkedGroupsToUpdate, every other member of each pending group's
\* link set has a child subtree of the same shape (node variant and child order
\* at every position) as that pending group's child subtree in the resulting
\* document.
C33_LinkSetsHaveOneShape ==
  \A h \in HelperNames :
    /\ result.op = "apply" /\ result.helper = h /\ result.ok
    /\ pre.helpers[h].tag = "ChangedLinkedGroups"
    => \A g \in Range(pre.helpers[h].changedLinkedGroups) :
         \A t \in OtherMembers(nodes, g) : Isomorphic(nodes, g, t)

\* entities at the same position of a and b that is not inside a nested group
\* linked with another id have the same link id
SameLinkIdsAtOwnPositions(heap, a, b) ==
  \A t \in OwnPositionsBelow(heap, <<a, b>>, heap[a].linkedGroupId) :
    heap[t[1]].kind = "Entity" /\ heap[t[2]].kind = "Entity"
      => heap[t[1]].linkId = heap[t[2]].linkId

\* the members of the link set with the id in the document
MembersOf(heap, linkedGroupId) ==
  {g \in LiveLinkedGroups(heap) : heap[g].linkedGroupId = linkedGroupId}

\* C34: updateLinkedGroups keeps link ids consistent.  After a successful update
\* every replacement entity, at any depth below a target, carries the link id of
\* the source entity at the same position (none if the source entity has none),
\* whatever the preservation passes restored; and after the setLinkIds on link
\* set 1, and any number of updates, the entities of link set 1 at equal
\* positions have equal link ids, which are link ids and not none.
C34_UpdatesKeepLinkIds ==
  /\ result.op = "update" /\ result.ok
     => \A target \in OtherMembers(nodes, result.source) :
          /\ Isomorphic(nodes, result.source, target)
          /\ \A p \in SamePositions(nodes, result.source, target) :
               nodes[p[1]].kind = "Entity" => nodes[p[2]].linkId = nodes[p[1]].linkId
  /\ \A a \in MembersOf(nodes, 1), b \in MembersOf(nodes, 1) :
       /\ SameLinkIdsAtOwnPositions(nodes, a, b)
       /\ \A n \in Range(nodes[a].children) :
            nodes[n].kind = "Entity" => nodes[n].linkId # NoLinkId

\* two updates with different sources were made, the second of them of link set
\* 1: its target's entity had protected properties and another link id than none,
\* and the replacement entity has properties restored from it
C34_Witness ==
  /\ result.op = "update" /\ result.ok
  /\ Len(result.sources) = MaxUpdates
  /\ result.sources[1] # result.sources[2]
  /\ nodes[result.source].linkedGroupId = 1
  /\ \E target \in OtherMembers(nodes, result.source) :
       \E k \in DOMAIN nodes[target].children :
         LET new == nodes[target].children[k]
             old == pre.nodes[target].children[k]
             src == nodes[result.source].children[k]
         IN  /\ nodes[new].kind = "Entity" /\ pre.nodes[old].kind = "Entity"
             /\ pre.nodes[old].protectedProperties # <<>>
             /\ nodes[new].linkId # NoLinkId
             /\ nodes[new].properties # nodes[src].properties

\* C38: during setLinkIds on groups that all have a linkedGroupId the assertion
\* 'Source entity has link ID' never fails: the copy walk meets no source entity
\* that the assignment walk left without a link id.
C38_SourceEntityHasLinkId ==
  result.op = "setLinkIds" => result.error # SourceEntityHasNoLinkId

\* the copy walk went through a nested group that is not linked and gave the
\* entity in it the link id that the assignment walk gave the source entity at
\* that position, which had none before
C38_Witness ==
  /\ result.op = "setLinkIds" /\ result.ok /\ Len(result.groups) = 2
  /\ \E t \in OwnPositionsBelow(nodes, result.groups,
                                nodes[result.groups[1]].linkedGroupId) :
       /\ nodes[t[1]].kind = "Entity" /\ nodes[t[2]].kind = "Entity"
       /\ nodes[nodes[t[1]].parent].kind = "Group"
       /\ nodes[nodes[t[1]].parent].linkedGroupId = NoLinkedGroupId
       /\ pre.nodes[t[1]].linkId = NoLinkId
       /\ nodes[t[1]].linkId # NoLinkId
       /\ nodes[t[2]].linkId = nodes[t[1]].linkId

\* C40: in setLinkIds the positional copy checks child counts only where it
\* recurses.  setLinkIds on two or more groups of one link set succeeds exactly
\* if every group has, position by position, the variants of the first group
\* and, at every group of the link set, unlinked group and entity that is not
\* inside a nested group linked with another id, as many children: a difference
\* inside a nested group linked with another id, or below a brush or patch, does
\* not make it fail, a difference in child count anywhere else does.
C40_CountsCheckedWhereTheCopyRecurses ==
  result.op = "setLinkIds" /\ Len(result.groups) >= 2
    => (result.ok <=>
          \A i \in DOMAIN result.groups :
            OwnIsomorphic(pre.nodes, result.groups[1], result.groups[i],
                          pre.nodes[result.groups[1]].linkedGroupId))

\* setLinkIds succeeded on groups whose nested groups, linked with another id,
\* have different numbers of children
C40_Witness ==
  /\ result.op = "setLinkIds" /\ result.ok /\ Len(result.groups) >= 2
  /\ \E t \in OwnPositionsBelow(pre.nodes, result.groups,
                                pre.nodes[result.groups[1]].linkedGroupId) :
       /\ ForeignGroup(pre.nodes, t[1], pre.nodes[result.groups[1]].linkedGroupId)
       /\ \E i \in DOMAIN t :
            Len(pre.nodes[t[i]].children) # Len(pre.nodes[t[1]].children)

====
